---- MODULE Spec2Model ----
(***************************************************************************)
(* A model of trimpb's trimming run (package trimpb, TrimMulti / runTrim   *)
(* and the trimmer methods): method resolution, type closure collection,   *)
(* file requirement filtering and descriptor pruning over a small, fixed   *)
(* descriptor graph.  Strings are sequences of one-character strings, so   *)
(* that strings.Count, strings.Split and strings.Contains are computed.    *)
(***************************************************************************)
EXTENDS Integers, Sequences, FiniteSets, TLC

\* ------------------------------------------------------------------ bounds
MaxEntries == 2        \* longest list of entry files tried
MaxSelectors == 2      \* longest list of method selectors tried
MaxRootSelectors == 1  \* the same, in the runs that vary the layout of paths
MaxFairSelectors == 1  \* the same, in the runs followed to their end
MaxPaths == 3          \* longest list of paths given to the canonicalizer

\* ----------------------------------------------------------------- strings
Dot == "."
NoId == "none"

RECURSIVE Range(_)
Range(s) == IF s = <<>> THEN {} ELSE {Head(s)} \cup Range(Tail(s))

\* strings.Count(s, ".")
Count(s) == Cardinality({i \in 1..Len(s) : s[i] = Dot})

\* strings.Split(s, "."): the pieces between the separators, in order
RECURSIVE SplitFrom(_, _, _)
SplitFrom(s, i, cur) ==
    IF i > Len(s) THEN <<cur>>
    ELSE IF s[i] = Dot THEN <<cur>> \o SplitFrom(s, i + 1, <<>>)
    ELSE SplitFrom(s, i + 1, Append(cur, s[i]))

Split(s) == SplitFrom(s, 1, <<>>)

\* strings.Contains(s, sub)
Contains(s, sub) ==
    \E i \in 0..(Len(s) - Len(sub)) : SubSeq(s, i + 1, i + Len(sub)) = sub

\* ------------------------------------------------- the descriptor graph
\* Four files.  "project" imports "common" and "extra"; "billing" and
\* "extra" import "common".
Files == {"common", "extra", "project", "billing"}

ProtoFiles == [
  common  |-> [package |-> <<"c">>, syntax |-> "proto3", options |-> "go_c",
               dependencies |-> <<>>,
               publicDependencies |-> <<>>,
               messageTypes |-> <<"U", "X", "O">>,
               enumTypes    |-> <<"St", "Co">>,
               services     |-> <<"cH">>],
  extra   |-> [package |-> <<"e">>, syntax |-> "proto2", options |-> "none",
               dependencies |-> <<"common">>,
               publicDependencies |-> <<>>,
               messageTypes |-> <<"Nt", "W">>,
               enumTypes    |-> <<>>,
               services     |-> <<"eN">>],
  project |-> [package |-> <<"p">>, syntax |-> "proto3", options |-> "go_p",
               dependencies |-> <<"common", "extra">>,
               publicDependencies |-> <<>>,
               messageTypes |-> <<"Pr", "CQ", "DQ", "DR", "Un">>,
               enumTypes    |-> <<"Pk">>,
               services     |-> <<"pE", "pS">>],
  billing |-> [package |-> <<"b">>, syntax |-> "proto3", options |-> "none",
               dependencies |-> <<"common">>,
               publicDependencies |-> <<>>,
               messageTypes |-> <<"A", "B">>,
               enumTypes    |-> <<>>,
               services     |-> <<"bS">>] ]

Scalar == [kind |-> "scalar", ref |-> NoId]
MsgRef(m) == [kind |-> "message", ref |-> m]
EnumRef(e) == [kind |-> "enum", ref |-> e]

\* Record types.  parent = NoId for a top-level type; "I" is nested in "O"
\* and "BN" in "B"; nested lists the types declared inside, in order.
ProtoMessages == [
  U  |-> [name |-> <<"U">>, file |-> "common", parent |-> NoId,
          nested |-> <<>>, fields |-> <<Scalar>>],
  X  |-> [name |-> <<"X">>, file |-> "common", parent |-> NoId,
          nested |-> <<>>, fields |-> <<Scalar, EnumRef("Co")>>],
  O  |-> [name |-> <<"O">>, file |-> "common", parent |-> NoId,
          nested |-> <<"I">>, fields |-> <<Scalar>>],
  I  |-> [name |-> <<"I">>, file |-> "common", parent |-> "O",
          nested |-> <<>>, fields |-> <<EnumRef("St")>>],
  Nt |-> [name |-> <<"N", "t">>, file |-> "extra", parent |-> NoId,
          nested |-> <<>>, fields |-> <<Scalar>>],
  W  |-> [name |-> <<"W">>, file |-> "extra", parent |-> NoId,
          nested |-> <<>>, fields |-> <<MsgRef("I")>>],
  Pr |-> [name |-> <<"P", "r">>, file |-> "project", parent |-> NoId,
          nested |-> <<>>, fields |-> <<Scalar, MsgRef("U"), EnumRef("St"), MsgRef("Pr")>>],
  CQ |-> [name |-> <<"C", "Q">>, file |-> "project", parent |-> NoId,
          nested |-> <<>>, fields |-> <<Scalar>>],
  DQ |-> [name |-> <<"D", "Q">>, file |-> "project", parent |-> NoId,
          nested |-> <<>>, fields |-> <<EnumRef("Pk")>>],
  DR |-> [name |-> <<"D", "R">>, file |-> "project", parent |-> NoId,
          nested |-> <<>>, fields |-> <<>>],
  Un |-> [name |-> <<"U", "n">>, file |-> "project", parent |-> NoId,
          nested |-> <<>>, fields |-> <<MsgRef("Nt")>>],
  A  |-> [name |-> <<"A">>, file |-> "billing", parent |-> NoId,
          nested |-> <<>>, fields |-> <<MsgRef("B")>>],
  B  |-> [name |-> <<"B">>, file |-> "billing", parent |-> NoId,
          nested |-> <<"BN">>, fields |-> <<MsgRef("A"), MsgRef("U")>>],
  BN |-> [name |-> <<"B", "N">>, file |-> "billing", parent |-> "B",
          nested |-> <<>>, fields |-> <<Scalar>>] ]

ProtoEnums == [
  St |-> [name |-> <<"S", "t">>, file |-> "common", parent |-> NoId,
          values |-> <<"ST_A", "ST_B">>],
  Co |-> [name |-> <<"C", "o">>, file |-> "common", parent |-> NoId,
          values |-> <<"CO_A">>],
  Pk |-> [name |-> <<"P", "k">>, file |-> "project", parent |-> NoId,
          values |-> <<"PK_A", "PK_B">>] ]

ProtoServices == [
  cH |-> [name |-> <<"H">>, file |-> "common", options |-> "none",
          methods |-> <<"Pi">>],
  eN |-> [name |-> <<"N">>, file |-> "extra", options |-> "none",
          methods |-> <<"Ne">>],
  pE |-> [name |-> <<"E">>, file |-> "project", options |-> "none",
          methods |-> <<>>],
  pS |-> [name |-> <<"S">>, file |-> "project", options |-> "deprecated",
          methods |-> <<"Get", "GetA", "Del">>],
  bS |-> [name |-> <<"S">>, file |-> "billing", options |-> "none",
          methods |-> <<"bGet">>] ]

ProtoMethods == [
  Pi   |-> [name |-> <<"P", "i">>, service |-> "cH",
            input |-> "U", output |-> "U", attrs |-> "unary"],
  Ne   |-> [name |-> <<"N", "e">>, service |-> "eN",
            input |-> "W", output |-> "Nt", attrs |-> "unary"],
  Get  |-> [name |-> <<"G", "e", "t">>, service |-> "pS",
            input |-> "CQ", output |-> "Pr", attrs |-> "unary"],
  GetA |-> [name |-> <<"G", "e", "t", "A">>, service |-> "pS",
            input |-> "DQ", output |-> "Pr", attrs |-> "server_stream"],
  Del  |-> [name |-> <<"D", "e", "l">>, service |-> "pS",
            input |-> "DQ", output |-> "DR", attrs |-> "unary"],
  bGet |-> [name |-> <<"G", "e", "t">>, service |-> "bS",
            input |-> "A", output |-> "B", attrs |-> "unary"] ]

RECURSIVE Flatten(_)
Flatten(qs) == IF qs = <<>> THEN <<>> ELSE Head(qs) \o Flatten(Tail(qs))

\* The paths of the location table that the parser builds for file f of the
\* declarations c (IncludeSourceCodeInfo): the file, its syntax (12) and
\* package (2) statements, its imports (3), its options (8), then every
\* message (4) with its fields (2), every enum (5), every service (6) with
\* its name (1) and its methods (2).  Indexes count from 0.
SourcePaths(c, f) ==
    LET fd == c.files[f]
        msgPaths(i) ==
            <<<<4, i - 1>>>> \o
            [j \in 1..Len(c.messages[fd.messageTypes[i]].fields) |->
                 <<4, i - 1, 2, j - 1>>]
        svcPaths(i) ==
            <<<<6, i - 1>>, <<6, i - 1, 1>>>> \o
            [m \in 1..Len(c.services[fd.services[i]].methods) |->
                 <<6, i - 1, 2, m - 1>>]
    IN  <<<<>>, <<12>>, <<2>>>>
        \o [i \in 1..Len(fd.dependencies) |-> <<3, i - 1>>]
        \o (IF fd.options = "none" THEN <<>> ELSE <<<<8>>>>)
        \o Flatten([i \in 1..Len(fd.messageTypes) |-> msgPaths(i)])
        \o [i \in 1..Len(fd.enumTypes) |-> <<5, i - 1>>]
        \o Flatten([i \in 1..Len(fd.services) |-> svcPaths(i)])

\* The table itself: each location has its path and its span in the text,
\* here the rank of the location in the file
SourceCodeInfo(c, f) ==
    LET sourcePaths == SourcePaths(c, f)
    IN  [k \in 1..Len(sourcePaths) |-> [path |-> sourcePaths[k], span |-> k]]

\* the declarations of a set of files as the parser hands them over
WithSourceCodeInfo(c) ==
    [c EXCEPT !.files =
        [f \in DOMAIN c.files |->
            [x \in DOMAIN c.files[f] \cup {"sourceCodeInfo"} |->
                IF x = "sourceCodeInfo" THEN SourceCodeInfo(c, f)
                ELSE c.files[f][x]]]]

\* The files of the test corpus together
Fixture ==
    WithSourceCodeInfo(
        [files |-> ProtoFiles, messages |-> ProtoMessages, enums |-> ProtoEnums,
         services |-> ProtoServices, methods |-> ProtoMethods])

\* A second corpus: "common" declares types only and no service, "extra"
\* imports it publicly, and "billing" imports "extra" alone, so that the
\* field of "B" names "U" through the public import
Without(f, x) == [k \in DOMAIN f \ {x} |-> f[k]]

SharedTypesFixture ==
    WithSourceCodeInfo(
        [files |-> [ProtoFiles EXCEPT
                        !.common.services = <<>>,
                        !.extra.publicDependencies = <<"common">>,
                        !.billing.dependencies = <<"extra">>],
         messages |-> ProtoMessages, enums |-> ProtoEnums,
         services |-> Without(ProtoServices, "cH"),
         methods |-> Without(ProtoMethods, "Pi")])

\* ------------------------------------------------------------------ state
VARIABLES
    entryProtoFiles,    \* TrimMulti argument: the entry files
    methodNames,        \* TrimMulti argument: the selectors
    importPaths,        \* TrimMulti argument: the directories to import from
    protoContents,      \* TrimMulti argument: the files that have content
    corpus,             \* what those files declare, as the parser reads it
    layout,             \* how the caller's paths of those files are laid out
    pc,                 \* position of the run
    entryFds,           \* parser.ParseFiles result, in argument order
    allFds,             \* collectAllDependencies result (names)
    sel,                \* runTrim: index of the next selector
    methods,            \* runTrim: what the last findMethods call returned
    entryPointMethods,  \* trimmer.entryPointMethods
    requiredMessages,   \* trimmer.requiredMessages (full names)
    requiredEnums,      \* trimmer.requiredEnums (full names)
    mi,                 \* runTrim: index of the method being collected
    io,                 \* 1: its input type is next, 2: its output type
    stack,              \* active collectDependencies calls: [md, fi]
    filesToTrim,        \* trimmer.filesToTrim (names)
    filteredFileProtos, \* runTrim: the pruned FileDescriptorProtos
    result,             \* returned map: file name -> pruned descriptor
    err,                \* returned error, NoErr when nil
    run,                \* 1 in the caller's first call of TrimMulti, 2 in its second
    prev,               \* what the first call ended with, once there is a second
    pathArgs,           \* the paths given to findLongestCommonPrefixPath
    commonRoot,         \* older TrimMulti: the import root it detected
    finalResults        \* older TrimMulti: the map it returns, by caller's path

vars == <<entryProtoFiles, methodNames, importPaths, protoContents, corpus,
          layout, pc, entryFds, allFds, sel, methods, entryPointMethods,
          requiredMessages, requiredEnums, mi, io, stack, filesToTrim,
          filteredFileProtos, result, err, run, prev, pathArgs, commonRoot,
          finalResults>>

\* what the caller passes to TrimMulti
inputs == <<entryProtoFiles, methodNames, importPaths, protoContents, corpus,
            layout>>

\* the caller's sequence of calls
calls == <<run, prev>>
\* the path handling of the older TrimMulti
paths == <<pathArgs, commonRoot, finalResults>>

NoErr == "nil"
EmptyMap == [f \in {} |-> NoId]

\* The descriptors of the files at hand
FileDesc == corpus.files
MessageDesc == corpus.messages
EnumDesc == corpus.enums
ServiceDesc == corpus.services
MethodDesc == corpus.methods

Messages == DOMAIN MessageDesc
Enums == DOMAIN EnumDesc
ServiceIds == DOMAIN ServiceDesc
MethodIds == DOMAIN MethodDesc

\* ---------------------------------------------------- descriptor accessors
\* MethodDescriptor.GetFile().GetName()
MethodFile(m) == ServiceDesc[MethodDesc[m].service].file

\* Descriptor.FullName(): package, enclosing names and simple name
RECURSIVE MessageFullName(_)
MessageFullName(m) ==
    IF MessageDesc[m].parent = NoId
    THEN FileDesc[MessageDesc[m].file].package \o <<Dot>> \o MessageDesc[m].name
    ELSE MessageFullName(MessageDesc[m].parent) \o <<Dot>> \o MessageDesc[m].name

EnumFullName(e) ==
    IF EnumDesc[e].parent = NoId
    THEN FileDesc[EnumDesc[e].file].package \o <<Dot>> \o EnumDesc[e].name
    ELSE MessageFullName(EnumDesc[e].parent) \o <<Dot>> \o EnumDesc[e].name

ServiceFullName(s) ==
    FileDesc[ServiceDesc[s].file].package \o <<Dot>> \o ServiceDesc[s].name

MethodFullName(m) ==
    ServiceFullName(MethodDesc[m].service) \o <<Dot>> \o MethodDesc[m].name

\* The top-level record type that encloses m (m itself when top-level)
RECURSIVE TopOf(_)
TopOf(m) == IF MessageDesc[m].parent = NoId THEN m ELSE TopOf(MessageDesc[m].parent)

\* m and every record type declared inside it
RECURSIVE EnclosedIn(_, _)
EnclosedIn(m, top) ==
    IF m = top THEN TRUE
    ELSE IF MessageDesc[m].parent = NoId THEN FALSE
    ELSE EnclosedIn(MessageDesc[m].parent, top)

Subtree(top) == {m \in Messages : EnclosedIn(m, top)}

\* ------------------------------------------------------------ the inputs
\* The method selectors tried: fully qualified names (two separators) of
\* methods, of a nested record type and of nothing; Service.Method names;
\* bare substrings, among them the empty one and one differing only in case.
Selectors == {
    <<"p", Dot, "S", Dot, "G", "e", "t">>,
    <<"c", Dot, "H", Dot, "P", "i">>,
    <<"e", Dot, "N", Dot, "N", "e">>,
    <<"c", Dot, "O", Dot, "I">>,
    <<"S", Dot, "G", "e", "t">>,
    <<"S", Dot, "D", "e", "l">>,
    <<"H", Dot, "P", "i">>,
    <<"G", "e", "t">>,
    <<"g", "e", "t">>,
    <<"e">>,
    <<>> }

RECURSIVE SeqsUpTo(_, _)
SeqsUpTo(S, n) ==
    IF n = 0 THEN {<<>>}
    ELSE LET shorter == SeqsUpTo(S, n - 1)
         IN  shorter \cup {Append(q, x) : q \in shorter, x \in S}

NoDuplicates(q) == \A i, j \in 1..Len(q) : i # j => q[i] # q[j]

\* Entry file lists: no file named twice
EntryLists == {q \in SeqsUpTo(Files, MaxEntries) : NoDuplicates(q)}

SelectorLists == SeqsUpTo(Selectors, MaxSelectors)

\* The contents mappings tried: every file, and one file left out
ContentsMaps == {Files, Files \ {"extra"}, Files \ {"common"}}

\* -------------------------------------------------- collectAllDependencies
RECURSIVE collectFrom(_, _)
collectFrom(queue, visited) ==
    IF queue = <<>> THEN visited
    ELSE LET fd == Head(queue)
         IN  IF fd \in visited
             THEN collectFrom(Tail(queue), visited)
             ELSE collectFrom(Tail(queue) \o FileDesc[fd].dependencies,
                              visited \cup {fd})

collectAllDependencies(entries) == collectFrom(entries, {})

\* ------------------------------------------------------------- findMethods
NilDescriptor == [kind |-> "nil", id |-> NoId]

\* FileDescriptor.FindSymbol: the descriptor of this file with that full name
FindSymbol(fd, name) ==
    IF \E m \in Messages : MessageDesc[m].file = fd /\ MessageFullName(m) = name
    THEN [kind |-> "message",
          id |-> CHOOSE m \in Messages :
                     MessageDesc[m].file = fd /\ MessageFullName(m) = name]
    ELSE IF \E e \in Enums : EnumDesc[e].file = fd /\ EnumFullName(e) = name
    THEN [kind |-> "enum",
          id |-> CHOOSE e \in Enums :
                     EnumDesc[e].file = fd /\ EnumFullName(e) = name]
    ELSE IF \E s \in ServiceIds : ServiceDesc[s].file = fd /\ ServiceFullName(s) = name
    THEN [kind |-> "service",
          id |-> CHOOSE s \in ServiceIds :
                     ServiceDesc[s].file = fd /\ ServiceFullName(s) = name]
    ELSE IF \E m \in MethodIds : MethodFile(m) = fd /\ MethodFullName(m) = name
    THEN [kind |-> "method",
          id |-> CHOOSE m \in MethodIds :
                     MethodFile(m) = fd /\ MethodFullName(m) = name]
    ELSE NilDescriptor

\* ServiceDescriptor.FindMethodByName
FindMethodByName(s, name) ==
    IF \E m \in Range(ServiceDesc[s].methods) : MethodDesc[m].name = name
    THEN CHOOSE m \in Range(ServiceDesc[s].methods) : MethodDesc[m].name = name
    ELSE NoId

\* the services of the files of a list, file by file, in declaration order
RECURSIVE ServicesOf(_)
ServicesOf(files) ==
    IF files = <<>> THEN <<>>
    ELSE FileDesc[Head(files)].services \o ServicesOf(Tail(files))

\* the methods of the services of a list, service by service
\* MethodsOf as it would be if it took the first method of a service only
RECURSIVE MethodsOfFirst(_)
MethodsOfFirst(services) ==
    IF services = <<>> THEN <<>>
    ELSE LET ms == ServiceDesc[Head(services)].methods
         IN  (IF ms = <<>> THEN <<>> ELSE <<Head(ms)>>)
                 \o MethodsOfFirst(Tail(services))

RECURSIVE MethodsOf(_)
MethodsOf(services) ==
    IF services = <<>> THEN <<>>
    ELSE ServiceDesc[Head(services)].methods \o MethodsOf(Tail(services))

NotFound == [methods |-> <<>>, err |-> "MethodNotFound"]
Found(ms) == [methods |-> ms, err |-> NoErr]

\* findQualified as it would be if it searched the entry files only
findQualifiedEntryOnly(methodName, allFiles) ==
    LET hits == {fd \in allFiles \cap Range(entryFds) :
                    FindSymbol(fd, methodName).kind = "method"}
    IN  IF hits = {} THEN NotFound
        ELSE Found(<<FindSymbol(CHOOSE fd \in hits : TRUE, methodName).id>>)

\* dotCount >= 2: the loop over allFiles returns at the first file whose
\* symbol of that name is a method (full names are unique in a linked graph)
findQualified(methodName, allFiles) ==
    LET hits == {fd \in allFiles : FindSymbol(fd, methodName).kind = "method"}
    IN  IF hits = {} THEN NotFound
        ELSE Found(<<FindSymbol(CHOOSE fd \in hits : TRUE, methodName).id>>)

\* findScoped as it would be if it searched every reachable file
findScopedAnywhere(methodName, entryFiles) ==
    LET parts == Split(methodName)
        Reachable(fd) == fd \in allFds
        others == SelectSeq(<<"common", "extra", "project", "billing">>, Reachable)
        Hit(s) == /\ ServiceDesc[s].name = parts[1]
                  /\ FindMethodByName(s, parts[2]) # NoId
        hits == SelectSeq(ServicesOf(entryFiles \o others), Hit)
    IN  IF hits = <<>> THEN NotFound
        ELSE Found(<<FindMethodByName(Head(hits), parts[2])>>)

\* dotCount = 1: first entry-file service of that name that has the method
findScoped(methodName, entryFiles) ==
    LET parts == Split(methodName)
        serviceName == parts[1]
        simpleMethodName == parts[2]
        Hit(s) == /\ ServiceDesc[s].name = serviceName
                  /\ FindMethodByName(s, simpleMethodName) # NoId
        hits == SelectSeq(ServicesOf(entryFiles), Hit)
    IN  IF hits = <<>> THEN NotFound
        ELSE Found(<<FindMethodByName(Head(hits), simpleMethodName)>>)

\* findPartial as it would be if it returned at the first match
findPartialFirst(methodName, entryFiles) ==
    LET Hit(m) == Contains(MethodDesc[m].name, methodName)
        foundMethods == SelectSeq(MethodsOf(ServicesOf(entryFiles)), Hit)
    IN  IF Len(foundMethods) > 0 THEN Found(<<Head(foundMethods)>>) ELSE NotFound

\* dotCount = 0: every entry-file method whose name contains the selector
findPartial(methodName, entryFiles) ==
    LET Hit(m) == Contains(MethodDesc[m].name, methodName)
        foundMethods == SelectSeq(MethodsOf(ServicesOf(entryFiles)), Hit)
    IN  IF Len(foundMethods) > 0 THEN Found(foundMethods) ELSE NotFound

findMethods(methodName, entryFiles, allFiles) ==
    LET dotCount == Count(methodName)
    IN  IF dotCount >= 2 THEN findQualified(methodName, allFiles)
        ELSE IF dotCount = 1 THEN findScoped(methodName, entryFiles)
        ELSE findPartial(methodName, entryFiles)

\* ---------------------------------------------------------- isFileRequired
\* isFileRequired as it would be if its last return were true
isFileRequiredAlways(fd, epm, reqMsgs, reqEnums) ==
    \/ \E i \in 1..Len(epm) : MethodFile(epm[i]) = fd
    \/ TRUE

isFileRequired(fd, epm, reqMsgs, reqEnums) ==
    \/ \E i \in 1..Len(epm) : MethodFile(epm[i]) = fd
    \/ \E i \in 1..Len(FileDesc[fd].messageTypes) :
           MessageFullName(FileDesc[fd].messageTypes[i]) \in reqMsgs
    \/ \E i \in 1..Len(FileDesc[fd].enumTypes) :
           EnumFullName(FileDesc[fd].enumTypes[i]) \in reqEnums

\* ---------------------------------------------------- filterFileDescriptor
\* methodsByService as it would be if filled in declaration order
methodsByServiceDeclared(fd, svc, epm) ==
    LET Mine(m) == MethodFile(m) = fd /\ m \in Range(epm)
    IN  SelectSeq(ServiceDesc[svc].methods, Mine)

\* methodsByService[full name of svc], built from the methods of this file
methodsByService(fd, svc, epm) ==
    LET Mine(m) == /\ MethodFile(m) = fd
                   /\ ServiceFullName(MethodDesc[m].service) = ServiceFullName(svc)
    IN  SelectSeq(epm, Mine)

\* MethodDescriptor.AsMethodDescriptorProto(): the method's own message,
\* naming its request and response types by full name
AsMethodDescriptorProto(m) ==
    [id         |-> m,
     name       |-> MethodDesc[m].name,
     inputType  |-> MessageFullName(MethodDesc[m].input),
     outputType |-> MessageFullName(MethodDesc[m].output),
     attrs      |-> MethodDesc[m].attrs]

RECURSIVE MapMethods(_)
MapMethods(ms) ==
    IF ms = <<>> THEN <<>>
    ELSE <<AsMethodDescriptorProto(Head(ms))>> \o MapMethods(Tail(ms))

\* newSvcProto as it would be if the loop over methods stopped one short
newSvcProtoShort(fd, svc, epm) ==
    LET ms == methodsByService(fd, svc, epm)
    IN  [id      |-> svc,
         name    |-> ServiceDesc[svc].name,
         options |-> ServiceDesc[svc].options,
         method  |-> MapMethods(SubSeq(ms, 1, Len(ms) - 1))]

newSvcProto(fd, svc, epm) ==
    [id      |-> svc,
     name    |-> ServiceDesc[svc].name,
     options |-> ServiceDesc[svc].options,
     method  |-> MapMethods(methodsByService(fd, svc, epm))]

RECURSIVE MapServices(_, _, _)
MapServices(fd, svcs, epm) ==
    IF svcs = <<>> THEN <<>>
    ELSE <<newSvcProto(fd, Head(svcs), epm)>> \o MapServices(fd, Tail(svcs), epm)

filterServices(fd, epm) ==
    LET Kept(svc) == methodsByService(fd, svc, epm) # <<>>
    IN  MapServices(fd, SelectSeq(FileDesc[fd].services, Kept), epm)

\* filterDependencies as it would be without the look-up in filesToTrim
filterDependenciesKeepAll(fd, toTrim) == FileDesc[fd].dependencies

filterDependencies(fd, toTrim) ==
    LET Kept(dep) == dep \in toTrim
    IN  SelectSeq(FileDesc[fd].dependencies, Kept)

\* A field as its FieldDescriptorProto: the referenced type by full name
AsFieldDescriptorProto(f) ==
    [kind     |-> f.kind,
     typeName |-> CASE f.kind = "message" -> MessageFullName(f.ref)
                    [] f.kind = "enum"    -> EnumFullName(f.ref)
                    [] OTHER              -> <<>>]

RECURSIVE MapFields(_)
MapFields(fs) ==
    IF fs = <<>> THEN <<>>
    ELSE <<AsFieldDescriptorProto(Head(fs))>> \o MapFields(Tail(fs))

\* MessageDescriptor.AsDescriptorProto(): the type's own message, with its
\* fields and the types declared inside it
RECURSIVE AsDescriptorProto(_)
RECURSIVE MapMessages(_)
AsDescriptorProto(msg) ==
    [id         |-> msg,
     name       |-> MessageDesc[msg].name,
     field      |-> MapFields(MessageDesc[msg].fields),
     nestedType |-> MapMessages(MessageDesc[msg].nested)]

MapMessages(msgs) ==
    IF msgs = <<>> THEN <<>>
    ELSE <<AsDescriptorProto(Head(msgs))>> \o MapMessages(Tail(msgs))

\* filterMessages as it would be if it copied a type without the types
\* declared inside it
filterMessagesShallow(fd, reqMsgs) ==
    LET Kept(msg) == MessageFullName(msg) \in reqMsgs
        whole == MapMessages(SelectSeq(FileDesc[fd].messageTypes, Kept))
    IN  [i \in 1..Len(whole) |-> [whole[i] EXCEPT !.nestedType = <<>>]]

filterMessages(fd, reqMsgs) ==
    LET Kept(msg) == MessageFullName(msg) \in reqMsgs
    IN  MapMessages(SelectSeq(FileDesc[fd].messageTypes, Kept))

\* EnumDescriptor.AsEnumDescriptorProto()
AsEnumDescriptorProto(enum) ==
    [id    |-> enum,
     name  |-> EnumDesc[enum].name,
     value |-> EnumDesc[enum].values]

RECURSIVE MapEnums(_)
MapEnums(enums) ==
    IF enums = <<>> THEN <<>>
    ELSE <<AsEnumDescriptorProto(Head(enums))>> \o MapEnums(Tail(enums))

\* filterEnums as it would be without the look-up in requiredEnums
filterEnumsKeepAll(fd, reqEnums) == MapEnums(FileDesc[fd].enumTypes)

filterEnums(fd, reqEnums) ==
    LET Kept(enum) == EnumFullName(enum) \in reqEnums
    IN  MapEnums(SelectSeq(FileDesc[fd].enumTypes, Kept))

\* Relocate as it would be if a kept location kept its original path
RelocateSame(fd, epm, reqMsgs, reqEnums, path) ==
    LET msgs == FileDesc[fd].messageTypes
        enums == FileDesc[fd].enumTypes
        svcs == FileDesc[fd].services
        same == [kept |-> TRUE, path |-> path]
        dropped == [kept |-> FALSE, path |-> path]
    IN  IF Len(path) = 0 THEN same
        ELSE CASE path[1] = 4 ->
                 IF /\ Len(path) >= 2 /\ path[2] < Len(msgs)
                    /\ MessageFullName(msgs[path[2] + 1]) \in reqMsgs
                 THEN same ELSE dropped
          [] path[1] = 5 ->
                 IF /\ Len(path) >= 2 /\ path[2] < Len(enums)
                    /\ EnumFullName(enums[path[2] + 1]) \in reqEnums
                 THEN same ELSE dropped
          [] path[1] = 6 ->
                 IF /\ Len(path) >= 2 /\ path[2] < Len(svcs)
                    /\ methodsByService(fd, svcs[path[2] + 1], epm) # <<>>
                 THEN IF Len(path) >= 4 /\ path[3] = 2
                      THEN IF /\ path[4] < Len(ServiceDesc[svcs[path[2] + 1]].methods)
                              /\ ServiceDesc[svcs[path[2] + 1]].methods[path[4] + 1]
                                     \in Range(methodsByService(
                                                   fd, svcs[path[2] + 1], epm))
                           THEN same ELSE dropped
                      ELSE same
                 ELSE dropped
          [] path[1] = 1 -> same
          [] OTHER -> dropped

\* One turn of the loop over the original locations: whether the location
\* is kept, and its path with the index of the message, enum, service or
\* method replaced by the index in the pruned file.  path[1] is the code's
\* path[0].
Relocate(fd, epm, reqMsgs, reqEnums, path) ==
    LET msgs == FileDesc[fd].messageTypes
        enums == FileDesc[fd].enumTypes
        svcs == FileDesc[fd].services
        KeptMsg(m) == MessageFullName(m) \in reqMsgs
        KeptEnum(e) == EnumFullName(e) \in reqEnums
        KeptSvc(v) == methodsByService(fd, v, epm) # <<>>
        \* the maps from original element to index in the pruned file
        origMsgToNewIndex(i) == Cardinality({k \in 1..(i - 1) : KeptMsg(msgs[k])})
        origEnumToNewIndex(i) == Cardinality({k \in 1..(i - 1) : KeptEnum(enums[k])})
        origServiceToNewIndex(i) == Cardinality({k \in 1..(i - 1) : KeptSvc(svcs[k])})
        \* methodMap[method]: the index of its last copy in the new service
        methodMap(v, m) ==
            LET ms == methodsByService(fd, v, epm)
            IN  (CHOOSE k \in 1..Len(ms) :
                     ms[k] = m /\ \A j \in (k + 1)..Len(ms) : ms[j] # m) - 1
        dropped == [kept |-> FALSE, path |-> path]
    IN  IF Len(path) = 0 THEN [kept |-> TRUE, path |-> path]
        ELSE CASE path[1] = 4 ->
                 IF /\ Len(path) >= 2
                    /\ path[2] < Len(msgs)
                    /\ KeptMsg(msgs[path[2] + 1])
                 THEN [kept |-> TRUE,
                       path |-> [path EXCEPT ![2] = origMsgToNewIndex(path[2] + 1)]]
                 ELSE dropped
          [] path[1] = 5 ->
                 IF /\ Len(path) >= 2
                    /\ path[2] < Len(enums)
                    /\ KeptEnum(enums[path[2] + 1])
                 THEN [kept |-> TRUE,
                       path |-> [path EXCEPT ![2] = origEnumToNewIndex(path[2] + 1)]]
                 ELSE dropped
          [] path[1] = 6 ->
                 IF /\ Len(path) >= 2
                    /\ path[2] < Len(svcs)
                    /\ KeptSvc(svcs[path[2] + 1])
                 THEN LET originalSvc == svcs[path[2] + 1]
                          newPath == [path EXCEPT
                                         ![2] = origServiceToNewIndex(path[2] + 1)]
                          originalMethods == ServiceDesc[originalSvc].methods
                      IN  IF Len(path) >= 4 /\ path[3] = 2
                          THEN IF /\ path[4] < Len(originalMethods)
                                  /\ originalMethods[path[4] + 1] \in
                                         Range(methodsByService(fd, originalSvc, epm))
                               THEN [kept |-> TRUE,
                                     path |-> [newPath EXCEPT ![4] =
                                         methodMap(originalSvc,
                                                   originalMethods[path[4] + 1])]]
                               ELSE dropped
                          ELSE [kept |-> TRUE, path |-> newPath]
                 ELSE dropped
          [] path[1] = 1 -> [kept |-> TRUE, path |-> path]
          [] OTHER -> dropped

\* the SourceCodeInfo of the pruned file: the kept locations, each a clone
\* of the original with the new path
newSourceCodeInfo(fd, epm, reqMsgs, reqEnums) ==
    LET originalLocations == FileDesc[fd].sourceCodeInfo
        Kept(loc) == Relocate(fd, epm, reqMsgs, reqEnums, loc.path).kept
        keptLocations == SelectSeq(originalLocations, Kept)
    IN  [k \in 1..Len(keptLocations) |->
            [keptLocations[k] EXCEPT
                !.path = Relocate(fd, epm, reqMsgs, reqEnums, @).path]]

filterFileDescriptor(fd, epm, reqMsgs, reqEnums, toTrim) ==
    [name        |-> fd,
     package     |-> FileDesc[fd].package,
     options     |-> FileDesc[fd].options,
     syntax      |-> IF FileDesc[fd].syntax = "proto3" THEN "proto3" ELSE "proto2",
     messageType |-> filterMessages(fd, reqMsgs),
     enumType    |-> filterEnums(fd, reqEnums),
     service     |-> filterServices(fd, epm),
     dependency  |-> filterDependencies(fd, toTrim),
     sourceCodeInfo |-> newSourceCodeInfo(fd, epm, reqMsgs, reqEnums)]

\* ------------------------------------- desc.CreateFileDescriptorsFromSet
\* The files whose types a pruned file can name: itself and its imports
Visible(P) == {P.name} \cup Range(P.dependency)

\* The full names a message of a pruned file declares: its own, under the
\* enclosing scope, and those of the types nested in it
RECURSIVE DeclaredNames(_, _)
DeclaredNames(scope, mp) ==
    LET fullName == scope \o <<Dot>> \o mp.name
    IN  {fullName} \cup UNION {DeclaredNames(fullName, mp.nestedType[i]) :
                                 i \in 1..Len(mp.nestedType)}

MessageNames(Q) ==
    UNION {DeclaredNames(Q.package, Q.messageType[i]) : i \in 1..Len(Q.messageType)}

EnumNames(Q) ==
    {Q.package \o <<Dot>> \o Q.enumType[i].name : i \in 1..Len(Q.enumType)}

\* the fields of a message of a pruned file and of the types nested in it
RECURSIVE FieldsOf(_)
FieldsOf(mp) ==
    Range(mp.field) \cup UNION {FieldsOf(mp.nestedType[i]) :
                                 i \in 1..Len(mp.nestedType)}

\* a type name resolves when a visible pruned file still declares it
ResolvesMessage(protos, P, typeName) ==
    \E Q \in protos : Q.name \in Visible(P) /\ typeName \in MessageNames(Q)

ResolvesEnum(protos, P, typeName) ==
    \E Q \in protos : Q.name \in Visible(P) /\ typeName \in EnumNames(Q)

ResolvesField(protos, P, f) ==
    CASE f.kind = "message" -> ResolvesMessage(protos, P, f.typeName)
      [] f.kind = "enum"    -> ResolvesEnum(protos, P, f.typeName)
      [] OTHER              -> TRUE

\* Linking the pruned set succeeds when the set has a file, every import is
\* in the set, no service names a method twice and every type reference
\* resolves.  (No pruned file has a public import: the field is never set.)
LinkOK(protos) ==
    /\ protos # {}
    /\ \A P \in protos :
           /\ \A d \in Range(P.dependency) : \E Q \in protos : Q.name = d
           /\ \A i \in 1..Len(P.service) :
                  LET ms == P.service[i].method
                  IN  /\ \A j, k \in 1..Len(ms) : j # k => ms[j].name # ms[k].name
                      /\ \A j \in 1..Len(ms) :
                             /\ ResolvesMessage(protos, P, ms[j].inputType)
                             /\ ResolvesMessage(protos, P, ms[j].outputType)
           /\ \A i \in 1..Len(P.messageType) :
                  \A f \in FieldsOf(P.messageType[i]) : ResolvesField(protos, P, f)

\* ----------------------------------------------------------------- the run
\* a trimmer and a run at their start
Fresh ==
    /\ pc' = "parse"
    /\ entryFds' = <<>>
    /\ allFds' = {}
    /\ sel' = 1
    /\ methods' = <<>>
    /\ entryPointMethods' = <<>>
    /\ requiredMessages' = {}
    /\ requiredEnums' = {}
    /\ mi' = 1
    /\ io' = 1
    /\ stack' = <<>>
    /\ filesToTrim' = {}
    /\ filteredFileProtos' = {}
    /\ result' = EmptyMap
    /\ err' = NoErr

NoCall == [pc |-> "none", result |-> EmptyMap, resolved |-> <<>>,
           messages |-> {}, enums |-> {}, files |-> {}]
\* what a call that returned leaves with the caller
Returned == [pc |-> pc, result |-> result, resolved |-> entryPointMethods,
             messages |-> requiredMessages, enums |-> requiredEnums,
             files |-> filesToTrim]

\* a caller that has not called yet
Idle ==
    /\ pc = "parse"
    /\ entryFds = <<>>
    /\ allFds = {}
    /\ sel = 1
    /\ methods = <<>>
    /\ entryPointMethods = <<>>
    /\ requiredMessages = {}
    /\ requiredEnums = {}
    /\ mi = 1
    /\ io = 1
    /\ stack = <<>>
    /\ filesToTrim = {}
    /\ filteredFileProtos = {}
    /\ result = EmptyMap
    /\ err = NoErr
    /\ run = 1
    /\ prev = NoCall
    /\ pathArgs = <<>>
    /\ commonRoot = <<>>
    /\ finalResults = EmptyMap

\* TrimMulti called with some arguments, on whatever the files declare
Called ==
    /\ entryProtoFiles \in EntryLists
    /\ methodNames \in SelectorLists
    /\ importPaths = <<>>
    /\ protoContents \in ContentsMaps
    /\ Idle

Begin == Called /\ corpus = Fixture

\* the caller's paths are the names the files import each other by
Init == Begin /\ layout = "flat"

\* parser.ParseFiles succeeds when the accessor has content for every entry
\* file and for every file they import, directly or not
Parseable(entries) ==
    /\ Range(entries) \subseteq protoContents
    /\ collectAllDependencies(entries) \subseteq protoContents

\* ParseFiles as it would be if it skipped the entry files it cannot parse
ParseFilesLenient ==
    /\ pc = "parse"
    /\ LET Present(fd) == Parseable(<<fd>>)
           parsed == SelectSeq(entryProtoFiles, Present)
       IN  /\ entryFds' = parsed
           /\ allFds' = collectAllDependencies(parsed)
           /\ IF Len(parsed) = 0
              THEN pc' = "failed" /\ err' = "NoEntryFiles"
              ELSE pc' = "resolve" /\ err' = err
    /\ UNCHANGED <<inputs, calls, paths, sel, methods,
                   entryPointMethods, requiredMessages, requiredEnums, mi, io,
                   stack, filesToTrim, filteredFileProtos, result>>

\* TrimMulti up to the call of runTrim, and runTrim's check of its entry list
ParseFiles ==
    /\ pc = "parse"
    /\ IF ~Parseable(entryProtoFiles)
       THEN /\ pc' = "failed" /\ err' = "ParseFailure"
            /\ UNCHANGED <<entryFds, allFds>>
       ELSE /\ entryFds' = entryProtoFiles
            /\ allFds' = collectAllDependencies(entryProtoFiles)
            /\ IF Len(entryProtoFiles) = 0
               THEN pc' = "failed" /\ err' = "NoEntryFiles"
               ELSE pc' = "resolve" /\ err' = err
    /\ UNCHANGED <<inputs, calls, paths, sel, methods, entryPointMethods,
                   requiredMessages, requiredEnums, mi, io, stack, filesToTrim,
                   filteredFileProtos, result>>

\* CleanupResolve as it would be if it looped over fds, not the entry files
CleanupResolveAll ==
    /\ pc = "resolve"
    /\ Len(methodNames) = 0
    /\ LET Reachable(fd) == fd \in allFds
       IN  entryPointMethods' = MethodsOf(ServicesOf(
               SelectSeq(<<"common", "extra", "project", "billing">>, Reachable)))
    /\ pc' = "collect"
    /\ UNCHANGED <<inputs, calls, paths, entryFds, allFds, sel, methods,
                   requiredMessages, requiredEnums, mi, io, stack, filesToTrim,
                   filteredFileProtos, result, err>>

\* runTrim, len(methodNames) == 0: every method of every entry-file service
CleanupResolve ==
    /\ pc = "resolve"
    /\ Len(methodNames) = 0
    /\ entryPointMethods' = MethodsOf(ServicesOf(entryFds))
    /\ pc' = "collect"
    /\ UNCHANGED <<inputs, calls, paths, entryFds, allFds, sel, methods,
                   requiredMessages, requiredEnums, mi, io, stack, filesToTrim,
                   filteredFileProtos, result, err>>

\* runTrim, one turn of the loop over methodNames
ResolveSelector ==
    /\ pc = "resolve"
    /\ sel <= Len(methodNames)
    /\ LET r == findMethods(methodNames[sel], entryFds, allFds)
       IN  /\ methods' = r.methods
           /\ IF r.err # NoErr
              THEN /\ pc' = "failed"
                   /\ err' = r.err
                   /\ UNCHANGED <<sel, entryPointMethods>>
              ELSE /\ entryPointMethods' = entryPointMethods \o r.methods
                   /\ sel' = sel + 1
                   /\ pc' = IF sel = Len(methodNames) THEN "collect" ELSE "resolve"
                   /\ err' = err
    /\ UNCHANGED <<inputs, calls, paths, entryFds, allFds,
                   requiredMessages, requiredEnums, mi, io, stack, filesToTrim,
                   filteredFileProtos, result>>

\* Call as it would be without the look-up in requiredMessages
CallUnguarded(md, rest) ==
    /\ stack' = Append(rest, [md |-> md, fi |-> 1])
    /\ requiredMessages' = requiredMessages \cup {MessageFullName(md)}

\* collectDependencies(md), entered with the frames below it in rest: returns
\* at once when md is known, else records it and starts on its fields
Call(md, rest) ==
    IF MessageFullName(md) \in requiredMessages
    THEN /\ stack' = rest
         /\ requiredMessages' = requiredMessages
    ELSE /\ stack' = Append(rest, [md |-> md, fi |-> 1])
         /\ requiredMessages' = requiredMessages \cup {MessageFullName(md)}

\* CollectRoot as it would be if each method were collected into sets of
\* its own
CollectRootFresh ==
    /\ pc = "collect"
    /\ stack = <<>>
    /\ mi <= Len(entryPointMethods)
    /\ LET method == MethodDesc[entryPointMethods[mi]]
           md == IF io = 1 THEN method.input ELSE method.output
           known == IF io = 1 THEN {} ELSE requiredMessages
       IN  IF MessageFullName(md) \in known
           THEN /\ stack' = <<>>
                /\ requiredMessages' = known
           ELSE /\ stack' = <<[md |-> md, fi |-> 1]>>
                /\ requiredMessages' = known \cup {MessageFullName(md)}
    /\ io' = IF io = 1 THEN 2 ELSE 1
    /\ mi' = IF io = 1 THEN mi ELSE mi + 1
    /\ UNCHANGED <<inputs, calls, paths, pc, entryFds, allFds, sel,
                   methods, entryPointMethods, requiredEnums, filesToTrim,
                   filteredFileProtos, result, err>>

\* runTrim: the next collectDependencies call of the loop over the methods
CollectRoot ==
    /\ pc = "collect"
    /\ stack = <<>>
    /\ mi <= Len(entryPointMethods)
    /\ LET method == MethodDesc[entryPointMethods[mi]]
       IN  Call(IF io = 1 THEN method.input ELSE method.output, <<>>)
    /\ io' = IF io = 1 THEN 2 ELSE 1
    /\ mi' = IF io = 1 THEN mi ELSE mi + 1
    /\ UNCHANGED <<inputs, calls, paths, pc, entryFds, allFds, sel,
                   methods, entryPointMethods, requiredEnums, filesToTrim,
                   filteredFileProtos, result, err>>

\* CollectField as it would be if requiredEnums were made anew for each enum
CollectFieldLatest ==
    /\ pc = "collect"
    /\ stack # <<>>
    /\ LET top == stack[Len(stack)]
           below == SubSeq(stack, 1, Len(stack) - 1)
           fields == MessageDesc[top.md].fields
       IN  IF top.fi > Len(fields)
           THEN /\ stack' = below
                /\ UNCHANGED <<requiredMessages, requiredEnums>>
           ELSE LET field == fields[top.fi]
                    here == Append(below, [md |-> top.md, fi |-> top.fi + 1])
                IN  /\ IF field.kind = "message"
                       THEN Call(field.ref, here)
                       ELSE stack' = here /\ UNCHANGED requiredMessages
                    /\ requiredEnums' =
                         IF field.kind = "enum"
                         THEN {EnumFullName(field.ref)}
                         ELSE requiredEnums
    /\ UNCHANGED <<inputs, calls, paths, pc, entryFds, allFds, sel,
                   methods, entryPointMethods, mi, io, filesToTrim,
                   filteredFileProtos, result, err>>

\* collectDependencies: one turn of the loop over md.GetFields(), or the return
CollectField ==
    /\ pc = "collect"
    /\ stack # <<>>
    /\ LET top == stack[Len(stack)]
           below == SubSeq(stack, 1, Len(stack) - 1)
           fields == MessageDesc[top.md].fields
       IN  IF top.fi > Len(fields)
           THEN /\ stack' = below
                /\ UNCHANGED <<requiredMessages, requiredEnums>>
           ELSE LET field == fields[top.fi]
                    here == Append(below, [md |-> top.md, fi |-> top.fi + 1])
                IN  /\ IF field.kind = "message"
                       THEN Call(field.ref, here)
                       ELSE stack' = here /\ UNCHANGED requiredMessages
                    /\ requiredEnums' =
                         IF field.kind = "enum"
                         THEN requiredEnums \cup {EnumFullName(field.ref)}
                         ELSE requiredEnums
    /\ UNCHANGED <<inputs, calls, paths, pc, entryFds, allFds, sel,
                   methods, entryPointMethods, mi, io, filesToTrim,
                   filteredFileProtos, result, err>>

\* runTrim after the collection loop: the empty-result return, else the loop
\* over fds that fills filesToTrim
FilterFiles ==
    /\ pc = "collect"
    /\ stack = <<>>
    /\ mi > Len(entryPointMethods)
    /\ IF Len(entryPointMethods) = 0 /\ Len(methodNames) > 0
       THEN /\ pc' = "done"
            /\ result' = EmptyMap
            /\ UNCHANGED filesToTrim
       ELSE /\ pc' = "prune"
            /\ filesToTrim' = {fd \in allFds :
                   isFileRequired(fd, entryPointMethods, requiredMessages,
                                  requiredEnums)}
            /\ UNCHANGED result
    /\ UNCHANGED <<inputs, calls, paths, entryFds, allFds, sel, methods,
                   entryPointMethods, requiredMessages, requiredEnums, mi, io,
                   stack, filteredFileProtos, err>>

\* PruneFiles as it would be if the new index were written into the path of
\* the original location, not into a copy of it
PruneFilesInPlace ==
    /\ pc = "prune"
    /\ filteredFileProtos' =
           {filterFileDescriptor(fd, entryPointMethods, requiredMessages,
                                 requiredEnums, filesToTrim) : fd \in filesToTrim}
    /\ LET rewritten(fd) ==
               LET locs == FileDesc[fd].sourceCodeInfo
               IN  [k \in 1..Len(locs) |->
                       [path |-> Relocate(fd, entryPointMethods, requiredMessages,
                                          requiredEnums, locs[k].path).path,
                        span |-> locs[k].span]]
       IN  corpus' = [corpus EXCEPT !.files =
               [fd \in DOMAIN FileDesc |->
                   IF fd \in filesToTrim
                   THEN [FileDesc[fd] EXCEPT !.sourceCodeInfo = rewritten(fd)]
                   ELSE FileDesc[fd]]]
    /\ pc' = "rebuild"
    /\ UNCHANGED <<entryProtoFiles, methodNames, importPaths, protoContents,
                   layout, calls,
                   paths, entryFds, allFds, sel, methods,
                   entryPointMethods, requiredMessages, requiredEnums, mi, io,
                   stack, filesToTrim, result, err>>

\* runTrim: the loop over filesToTrim calling filterFileDescriptor
PruneFiles ==
    /\ pc = "prune"
    /\ filteredFileProtos' =
           {filterFileDescriptor(fd, entryPointMethods, requiredMessages,
                                 requiredEnums, filesToTrim) : fd \in filesToTrim}
    /\ pc' = "rebuild"
    /\ UNCHANGED <<inputs, calls, paths, entryFds, allFds, sel, methods,
                   entryPointMethods, requiredMessages, requiredEnums, mi, io,
                   stack, filesToTrim, result, err>>

\* what the printer writes for a file: its declarations; the location table
\* is no part of the text
PrintProtoToString(P) == [x \in DOMAIN P \ {"sourceCodeInfo"} |-> P[x]]

\* the map runTrim returns when the pruned set links: one entry per file
Printed(protos) ==
    [f \in {P.name : P \in protos} |->
        PrintProtoToString(CHOOSE P \in protos : P.name = f)]

\* RebuildAndPrint as it would be if the error of the rebuild were dropped
RebuildUnchecked ==
    /\ pc = "rebuild"
    /\ result' = Printed(filteredFileProtos)
    /\ pc' = "done"
    /\ UNCHANGED <<inputs, calls, paths, entryFds, allFds, sel, methods,
                   entryPointMethods, requiredMessages, requiredEnums, mi, io,
                   stack, filesToTrim, filteredFileProtos, err>>

\* runTrim: CreateFileDescriptorsFromSet, its error check, and the printing
RebuildAndPrint ==
    /\ pc = "rebuild"
    /\ IF LinkOK(filteredFileProtos)
       THEN /\ result' = Printed(filteredFileProtos)
            /\ pc' = "done"
            /\ err' = err
       ELSE /\ result' = result
            /\ pc' = "failed"
            /\ err' = "DescriptorRebuildFailure"
    /\ UNCHANGED <<inputs, calls, paths, entryFds, allFds, sel, methods,
                   entryPointMethods, requiredMessages, requiredEnums, mi, io,
                   stack, filesToTrim, filteredFileProtos>>

Next ==
    \/ ParseFiles
    \/ CleanupResolve
    \/ ResolveSelector
    \/ CollectRoot
    \/ CollectField
    \/ FilterFiles
    \/ PruneFiles
    \/ RebuildAndPrint

Spec == Init /\ [][Next]_vars

\* ------------------------------------------------------- a second call
\* The parser reading a mapping of pruned files: every message a file
\* declares, with its full name, its file and the type that encloses it
RECURSIVE Declared(_, _, _, _)
Declared(scope, file, parent, mp) ==
    LET fullName == scope \o <<Dot>> \o mp.name
    IN  {[id |-> mp.id, fullName |-> fullName, file |-> file,
          parent |-> parent, proto |-> mp]}
        \cup UNION {Declared(fullName, file, mp.id, mp.nestedType[i]) :
                      i \in 1..Len(mp.nestedType)}

DeclaredMessages(out) ==
    UNION {UNION {Declared(out[f].package, f, NoId, out[f].messageType[i]) :
                  i \in 1..Len(out[f].messageType)} : f \in DOMAIN out}

DeclaredEnums(out) ==
    UNION {{[id |-> out[f].enumType[i].id, file |-> f, proto |-> out[f].enumType[i],
             fullName |-> out[f].package \o <<Dot>> \o out[f].enumType[i].name] :
            i \in 1..Len(out[f].enumType)} : f \in DOMAIN out}

DeclaredServices(out) ==
    UNION {{[id |-> out[f].service[i].id, file |-> f, proto |-> out[f].service[i]] :
            i \in 1..Len(out[f].service)} : f \in DOMAIN out}

DeclaredMethods(out) ==
    UNION {{[id |-> s.proto.method[k].id, service |-> s.id, proto |-> s.proto.method[k]] :
            k \in 1..Len(s.proto.method)} : s \in DeclaredServices(out)}

\* the descriptor a type name links to
LinkedTo(declared, typeName) == (CHOOSE r \in declared : r.fullName = typeName).id

IdsOf(protos) == [i \in 1..Len(protos) |-> protos[i].id]

\* the descriptors protoparse builds from the files of the mapping
Reparsed(out) ==
    LET msgs == DeclaredMessages(out)
        enums == DeclaredEnums(out)
        svcs == DeclaredServices(out)
        meths == DeclaredMethods(out)
        ParseField(f) ==
            CASE f.kind = "message" -> MsgRef(LinkedTo(msgs, f.typeName))
              [] f.kind = "enum"    -> EnumRef(LinkedTo(enums, f.typeName))
              [] OTHER              -> Scalar
    IN  WithSourceCodeInfo([files |->
           [f \in DOMAIN out |->
              [package |-> out[f].package, syntax |-> out[f].syntax,
               options |-> out[f].options, dependencies |-> out[f].dependency,
               publicDependencies |-> <<>>,
               messageTypes |-> IdsOf(out[f].messageType),
               enumTypes |-> IdsOf(out[f].enumType),
               services |-> IdsOf(out[f].service)]],
         messages |->
           [m \in {r.id : r \in msgs} |->
              LET r == CHOOSE r \in msgs : r.id = m
              IN  [name |-> r.proto.name, file |-> r.file, parent |-> r.parent,
                   nested |-> IdsOf(r.proto.nestedType),
                   fields |-> [j \in 1..Len(r.proto.field) |->
                                  ParseField(r.proto.field[j])]]],
         enums |->
           [e \in {r.id : r \in enums} |->
              LET r == CHOOSE r \in enums : r.id = e
              IN  [name |-> r.proto.name, file |-> r.file, parent |-> NoId,
                   values |-> r.proto.value]],
         services |->
           [v \in {r.id : r \in svcs} |->
              LET r == CHOOSE r \in svcs : r.id = v
              IN  [name |-> r.proto.name, file |-> r.file,
                   options |-> r.proto.options,
                   methods |-> IdsOf(r.proto.method)]],
         methods |->
           [m \in {r.id : r \in meths} |->
              LET r == CHOOSE r \in meths : r.id = m
              IN  [name |-> r.proto.name, service |-> r.service,
                   input |-> LinkedTo(msgs, r.proto.inputType),
                   output |-> LinkedTo(msgs, r.proto.outputType),
                   attrs |-> r.proto.attrs]]])

\* The caller feeds the output of a successful call back in as the contents
\* mapping, with the same entry files and selectors
RerunOnOutput ==
    /\ run = 1
    /\ pc = "done"
    /\ run' = 2
    /\ prev' = Returned
    /\ protoContents' = DOMAIN result
    /\ corpus' = Reparsed(result)
    /\ Fresh
    /\ UNCHANGED <<entryProtoFiles, methodNames, importPaths, layout, paths>>

\* The caller repeats a call that had selectors without them
RerunCleanup ==
    /\ run = 1
    /\ pc \in {"done", "failed"}
    /\ Len(methodNames) > 0
    /\ run' = 2
    /\ prev' = Returned
    /\ methodNames' = <<>>
    /\ Fresh
    /\ UNCHANGED <<entryProtoFiles, importPaths, protoContents, corpus, layout,
                   paths>>

Reverse(q) == [i \in 1..Len(q) |-> q[Len(q) + 1 - i]]

\* The caller repeats a call with the selectors in the opposite order
RerunReversed ==
    /\ run = 1
    /\ pc \in {"done", "failed"}
    /\ Len(methodNames) > 1
    /\ run' = 2
    /\ prev' = Returned
    /\ methodNames' = Reverse(methodNames)
    /\ Fresh
    /\ UNCHANGED <<entryProtoFiles, importPaths, protoContents, corpus, layout,
                   paths>>

OutputRerunSpec == Init /\ [][Next \/ RerunOnOutput]_vars
CleanupRerunSpec == Init /\ [][Next \/ RerunCleanup]_vars
ReversedRerunSpec == Init /\ [][Next \/ RerunReversed]_vars

\* --------------------------------- the older TrimMulti: a common import root
Separator == "/"

\* strings.Split(path, string(filepath.Separator))
RECURSIVE SplitPathFrom(_, _, _)
SplitPathFrom(s, i, cur) ==
    IF i > Len(s) THEN <<cur>>
    ELSE IF s[i] = Separator THEN <<cur>> \o SplitPathFrom(s, i + 1, <<>>)
    ELSE SplitPathFrom(s, i + 1, Append(cur, s[i]))

SplitPath(s) == SplitPathFrom(s, 1, <<>>)

\* strings.Join(parts, string(filepath.Separator))
RECURSIVE JoinPath(_)
JoinPath(parts) ==
    IF parts = <<>> THEN <<>>
    ELSE IF Len(parts) = 1 THEN parts[1]
    ELSE parts[1] \o <<Separator>> \o JoinPath(Tail(parts))

\* strings.TrimPrefix(s, prefix)
TrimPrefix(s, prefix) ==
    IF Len(prefix) <= Len(s) /\ SubSeq(s, 1, Len(prefix)) = prefix
    THEN SubSeq(s, Len(prefix) + 1, Len(s))
    ELSE s

\* filepath.Dir of a clean relative path
Dir(path) ==
    LET parts == SplitPath(path)
    IN  IF Len(parts) = 1 THEN <<".">>
        ELSE JoinPath(SubSeq(parts, 1, Len(parts) - 1))

\* findLongestCommonPrefixPath as it would be if it compared the paths
\* character by character
findLongestCommonPrefixChars(allPaths) ==
    IF Len(allPaths) = 0 THEN <<>>
    ELSE IF Len(allPaths) = 1 THEN Dir(allPaths[1])
    ELSE LET minLen == CHOOSE n \in {Len(allPaths[i]) : i \in 1..Len(allPaths)} :
                           \A i \in 1..Len(allPaths) : n <= Len(allPaths[i])
             allMatch(i) == \A j \in 2..Len(allPaths) :
                                allPaths[j][i] = allPaths[1][i]
             kept == CHOOSE k \in 0..minLen :
                         /\ \A i \in 1..k : allMatch(i)
                         /\ k < minLen => ~allMatch(k + 1)
         IN  SubSeq(allPaths[1], 1, kept)

findLongestCommonPrefixPath(allPaths) ==
    IF Len(allPaths) = 0 THEN <<>>
    ELSE IF Len(allPaths) = 1 THEN Dir(allPaths[1])
    ELSE LET parts == [i \in 1..Len(allPaths) |-> SplitPath(allPaths[i])]
             minLen == CHOOSE n \in {Len(parts[i]) : i \in 1..Len(parts)} :
                           \A i \in 1..Len(parts) : n <= Len(parts[i])
             allMatch(i) == \A j \in 2..Len(parts) : parts[j][i] = parts[1][i]
             \* the loop breaks at the first segment that differs
             kept == CHOOSE k \in 0..minLen :
                         /\ \A i \in 1..k : allMatch(i)
                         /\ k < minLen => ~allMatch(k + 1)
         IN  JoinPath(SubSeq(parts[1], 1, kept))

\* The caller's layouts tried: the files by the names they import each other
\* by, all of them under one directory, and under two unrelated directories
Layouts == {"flat", "rooted", "roots"}

ShortName == [common |-> <<"c">>, extra |-> <<"e">>, project |-> <<"p">>,
              billing |-> <<"b">>]
RootOf == [common |-> <<"l", "i", "b">>, extra |-> <<"l", "i", "b">>,
           project |-> <<"a", "p", "i">>, billing |-> <<"a", "p", "i">>]

\* the path that the import statements of the other files give for f
ImportName(f) ==
    IF layout = "roots" THEN RootOf[f] \o <<Separator>> \o ShortName[f]
    ELSE ShortName[f]

\* the key of f in the caller's protoContents
KeyOf(f) ==
    IF layout = "rooted" THEN <<"s", "r", "c", Separator>> \o ShortName[f]
    ELSE IF layout \in {"split", "mirrored"}
    THEN RootOf[f] \o <<Separator>> \o ShortName[f]
    ELSE ImportName(f)

\* the orders in which a range over a map can deliver its keys
RECURSIVE Orderings(_)
Orderings(S) ==
    IF S = {} THEN {<<>>}
    ELSE UNION {{<<x>> \o q : q \in Orderings(S \ {x})} : x \in S}

\* The older TrimMulti up to the start of runTrim's work: detect the common
\* root, remap the keys and the entry files, parse, and look the caller's
\* entry files up among the parsed files
RemapAndParse ==
    /\ pc = "parse"
    /\ \E allPaths \in Orderings({KeyOf(f) : f \in protoContents}),
          entryFileDescs \in Orderings(Range(entryProtoFiles)) :
        \E root \in {findLongestCommonPrefixPath(allPaths)} :
        \E newRoot \in {IF root # <<>> THEN root \o <<Separator>> ELSE root} :
        \E fds \in {collectAllDependencies(entryProtoFiles)} :
          LET newKey(f) == TrimPrefix(KeyOf(f), newRoot)
              original == [i \in 1..Len(entryProtoFiles) |->
                              KeyOf(entryProtoFiles[i])]
              remappedEntryFiles ==
                  [i \in 1..Len(original) |-> TrimPrefix(original[i], newRoot)]
              Has(name) == \E f \in protoContents : newKey(f) = name
              parsed ==
                  /\ \A i \in 1..Len(remappedEntryFiles) :
                         /\ entryProtoFiles[i] \in protoContents
                         /\ Has(remappedEntryFiles[i])
                  /\ \A f \in fds : f \in protoContents /\ Has(ImportName(f))
              found == \A i \in 1..Len(original) :
                           \E fd \in fds : newKey(fd) = original[i]
          IN  /\ commonRoot' = newRoot
              /\ IF ~parsed
                 THEN /\ pc' = "failed" /\ err' = "ParseFailure"
                      /\ UNCHANGED <<entryFds, allFds>>
                 ELSE IF ~found
                 THEN /\ pc' = "failed" /\ err' = "EntryNotFound"
                      /\ entryFds' = <<>>
                      /\ allFds' = fds
                 ELSE /\ pc' = "resolve" /\ err' = err
                      /\ entryFds' = entryFileDescs
                      /\ allFds' = fds
    /\ UNCHANGED <<inputs, calls, pathArgs, finalResults, sel, methods,
                   entryPointMethods,
                   requiredMessages, requiredEnums, mi, io, stack, filesToTrim,
                   filteredFileProtos, result>>

\* The older TrimMulti after runTrim returned: the keys mapped back
RestoreKeys ==
    /\ pc = "done"
    /\ LET trimmedPath(f) == TrimPrefix(KeyOf(f), commonRoot)
           originalPath(f) == commonRoot \o trimmedPath(f)
           key(f) == IF \E g \in protoContents : KeyOf(g) = originalPath(f)
                     THEN originalPath(f)
                     ELSE trimmedPath(f)
           keys == {key(f) : f \in DOMAIN result}
       IN  \E last \in [keys -> DOMAIN result] :
               /\ \A k \in keys : key(last[k]) = k
               /\ finalResults' = [k \in keys |-> result[last[k]]]
    /\ pc' = "returned"
    /\ UNCHANGED <<inputs, calls, pathArgs, commonRoot, entryFds, allFds, sel,
                   methods,
                   entryPointMethods, requiredMessages, requiredEnums, mi, io,
                   stack, filesToTrim, filteredFileProtos, result, err>>

PrefixInit ==
    /\ Begin
    /\ Len(methodNames) <= MaxRootSelectors
    /\ layout \in Layouts

PrefixNext ==
    \/ RemapAndParse
    \/ CleanupResolve
    \/ ResolveSelector
    \/ CollectRoot
    \/ CollectField
    \/ FilterFiles
    \/ PruneFiles
    \/ RebuildAndPrint
    \/ RestoreKeys

PrefixSpec == PrefixInit /\ [][PrefixNext]_vars

\* The caller repeats a call with the very same arguments
RerunSame ==
    /\ run = 1
    /\ pc \in {"done", "returned", "failed"}
    /\ run' = 2
    /\ prev' = Returned
    /\ commonRoot' = <<>>
    /\ finalResults' = EmptyMap
    /\ Fresh
    /\ UNCHANGED <<inputs, pathArgs>>

RepeatSpec == PrefixInit /\ [][PrefixNext \/ RerunSame]_vars

\* ------------------------------------- the newest TrimMulti: import paths
\* The layouts tried with import paths: the two directories "lib" and "api"
\* with the files imported by their short names ("split"), and the same
\* with a copy of "common" in "api" as well ("mirrored")
ImportLayouts == {"flat", "rooted", "split", "mirrored"}

ImportPathLists == {
    <<>>,
    <<<<"s", "r", "c">>>>,
    <<<<"l", "i", "b">>, <<"a", "p", "i">>>>,
    <<<<"a", "p", "i">>, <<"l", "i", "b">>>> }

\* the keys of the caller's protoContents
Keys ==
    {KeyOf(f) : f \in protoContents}
    \cup (IF layout = "mirrored" /\ "common" \in protoContents
          THEN {<<"a", "p", "i", Separator>> \o ShortName["common"]}
          ELSE {})

\* filepath.Clean(filepath.Join(dir, path)) of two clean paths
Join(dir, path) == IF dir = <<>> THEN path ELSE dir \o <<Separator>> \o path

\* findRealPath as it would be if it tried the import paths last to first
RECURSIVE findRealPathBackwards(_, _, _)
findRealPathBackwards(path, dirs, contents) ==
    IF dirs = <<>> THEN path
    ELSE IF Join(dirs[Len(dirs)], path) \in contents
    THEN Join(dirs[Len(dirs)], path)
    ELSE findRealPathBackwards(path, SubSeq(dirs, 1, Len(dirs) - 1), contents)

RECURSIVE findRealPath(_, _, _)
findRealPath(path, dirs, contents) ==
    IF dirs = <<>> THEN path
    ELSE IF Join(Head(dirs), path) \in contents THEN Join(Head(dirs), path)
    ELSE findRealPath(path, Tail(dirs), contents)

\* the parser's accessor finds a file name under some import path, or as
\* it is when there is no import path
Accessible(name) ==
    IF importPaths = <<>> THEN name \in Keys
    ELSE \E i \in 1..Len(importPaths) : Join(importPaths[i], name) \in Keys

\* TrimMulti up to the call of runTrim, with import paths
ParseWithImportPaths ==
    /\ pc = "parse"
    /\ \E fds \in {collectAllDependencies(entryProtoFiles)} :
         IF \E f \in Range(entryProtoFiles) \cup fds :
                f \notin protoContents \/ ~Accessible(ImportName(f))
         THEN /\ pc' = "failed" /\ err' = "ParseFailure"
              /\ UNCHANGED <<entryFds, allFds>>
         ELSE /\ entryFds' = entryProtoFiles
              /\ allFds' = fds
              /\ IF Len(entryProtoFiles) = 0
                 THEN pc' = "failed" /\ err' = "NoEntryFiles"
                 ELSE pc' = "resolve" /\ err' = err
    /\ UNCHANGED <<inputs, calls, paths, sel, methods, entryPointMethods,
                   requiredMessages, requiredEnums, mi, io, stack, filesToTrim,
                   filteredFileProtos, result>>

\* TrimMulti after runTrim returned: the loop that fills finalResults
RealPaths ==
    /\ pc = "done"
    /\ LET realPath(f) == findRealPath(ImportName(f), importPaths, Keys)
           keys == {realPath(f) : f \in DOMAIN result}
       IN  \E last \in [keys -> DOMAIN result] :
               /\ \A k \in keys : realPath(last[k]) = k
               /\ finalResults' = [k \in keys |-> result[last[k]]]
    /\ pc' = "returned"
    /\ UNCHANGED <<inputs, calls, pathArgs, commonRoot, entryFds, allFds, sel,
                   methods, entryPointMethods, requiredMessages, requiredEnums,
                   mi, io, stack, filesToTrim, filteredFileProtos, result, err>>

ImportPathInit ==
    /\ entryProtoFiles \in EntryLists
    /\ methodNames \in SelectorLists
    /\ Len(methodNames) <= MaxRootSelectors
    /\ importPaths \in ImportPathLists
    /\ protoContents \in {Files, Files \ {"extra"}}
    /\ corpus = Fixture
    /\ layout \in ImportLayouts
    /\ Idle

ImportPathNext ==
    \/ ParseWithImportPaths
    \/ CleanupResolve
    \/ ResolveSelector
    \/ CollectRoot
    \/ CollectField
    \/ FilterFiles
    \/ PruneFiles
    \/ RebuildAndPrint
    \/ RealPaths

ImportPathSpec == ImportPathInit /\ [][ImportPathNext]_vars

\* The canonicalizer on its own, on lists of paths with shared directories,
\* with segments that share leading characters only, and of one segment
PathSet == {
    <<"a", "b", Separator, "x">>,
    <<"a", "b", "c", Separator, "y">>,
    <<"a", "b", Separator, "y">>,
    <<"a", "b", Separator, "c", Separator, "x">>,
    <<"a", "b", Separator, "c", Separator, "y">>,
    <<"a", "b">>,
    <<"x">> }

PathLists == SeqsUpTo(PathSet, MaxPaths)

CanonInit ==
    /\ entryProtoFiles = <<>>
    /\ methodNames = <<>>
    /\ importPaths = <<>>
    /\ protoContents = {}
    /\ corpus = Fixture
    /\ layout = "flat"
    /\ Idle

\* the caller hands some paths to findLongestCommonPrefixPath
GivePaths ==
    /\ pc = "parse"
    /\ pathArgs' \in PathLists
    /\ pc' = "given"
    /\ UNCHANGED <<inputs, calls, commonRoot, finalResults, entryFds, allFds,
                   sel, methods, entryPointMethods, requiredMessages,
                   requiredEnums, mi, io, stack, filesToTrim,
                   filteredFileProtos, result, err>>

DetectRoot ==
    /\ pc = "given"
    /\ commonRoot' = findLongestCommonPrefixPath(pathArgs)
    /\ pc' = "rooted"
    /\ UNCHANGED <<inputs, calls, pathArgs, finalResults, entryFds, allFds,
                   sel, methods, entryPointMethods, requiredMessages,
                   requiredEnums, mi, io, stack, filesToTrim,
                   filteredFileProtos, result, err>>

CanonSpec == CanonInit /\ [][GivePaths \/ DetectRoot]_vars

\* A run is one sequential call: it keeps taking steps until it returns
\* (with content for every file: the collection starts after the parse)
FairInit ==
    /\ Init
    /\ protoContents = Files
    /\ Len(methodNames) <= MaxFairSelectors
FairSpec == FairInit /\ [][Next]_vars /\ WF_vars(Next)

\* The run on the second corpus
SharedTypesInit ==
    /\ Called
    /\ corpus = SharedTypesFixture
    /\ layout = "flat"
    /\ Len(methodNames) <= MaxRootSelectors

SharedTypesSpec == SharedTypesInit /\ [][Next]_vars

\* ================================================================= claims
\* What the claims speak of, stated without the trimmer's own bookkeeping.

\* the record and enum types named by the fields of a record type
MessageRefs(m) ==
    {MessageDesc[m].fields[j].ref :
        j \in {k \in 1..Len(MessageDesc[m].fields) :
                  MessageDesc[m].fields[k].kind = "message"}}

EnumRefs(m) ==
    {MessageDesc[m].fields[j].ref :
        j \in {k \in 1..Len(MessageDesc[m].fields) :
                  MessageDesc[m].fields[k].kind = "enum"}}

\* least set containing S and closed under field references
RECURSIVE Closure(_)
Closure(S) ==
    LET next == S \cup UNION {MessageRefs(m) : m \in S}
    IN  IF next = S THEN S ELSE Closure(next)

Signature(ms) ==
    {MethodDesc[m].input : m \in ms} \cup {MethodDesc[m].output : m \in ms}

ReachableMessages(ms) == Closure(Signature(ms))
ReachableEnums(ms) == UNION {EnumRefs(m) : m \in ReachableMessages(ms)}

Resolved == Range(entryPointMethods)

\* the content of the output
KeptFiles == DOMAIN result
\* the methods a pruned service lists, by the descriptors they were copied from
MethodIdsOf(svcProto) == [k \in 1..Len(svcProto.method) |-> svcProto.method[k].id]
KeptTopMessages(f) ==
    {result[f].messageType[i].id : i \in 1..Len(result[f].messageType)}
KeptMessages(f) == UNION {Subtree(top) : top \in KeptTopMessages(f)}
KeptEnums(f) == {result[f].enumType[i].id : i \in 1..Len(result[f].enumType)}
KeptMethods(f) ==
    UNION {Range(MethodIdsOf(result[f].service[i])) : i \in 1..Len(result[f].service)}
KeptServices(f) == {result[f].service[i].id : i \in 1..Len(result[f].service)}

MessageInOutput(m) == \E g \in KeptFiles : TopOf(m) \in KeptTopMessages(g)
EnumInOutput(e) ==
    \E g \in KeptFiles :
        IF EnumDesc[e].parent = NoId THEN e \in KeptEnums(g)
        ELSE TopOf(EnumDesc[e].parent) \in KeptTopMessages(g)

\* C1: after a successful run every record or enum type referenced by a
\* field of a kept record type, or used as input or output type of a kept
\* method, is declared in some file of the output.
ClosureComplete ==
    pc = "done" =>
        \A f \in KeptFiles :
            /\ \A m \in KeptMessages(f) :
                   /\ \A r \in MessageRefs(m) : MessageInOutput(r)
                   /\ \A e \in EnumRefs(m) : EnumInOutput(e)
            /\ \A md \in KeptMethods(f) :
                   /\ MessageInOutput(MethodDesc[md].input)
                   /\ MessageInOutput(MethodDesc[md].output)

\* a successful run whose output spans two files, one holding a type that a
\* kept record type of the other refers to
ClosureCompleteWitness ==
    /\ pc = "done"
    /\ \E f, g \in KeptFiles :
           /\ f # g
           /\ \E m \in KeptMessages(f) : \E r \in MessageRefs(m) :
                  r \in KeptTopMessages(g)

OwnsRequired(f) ==
    \/ \E m \in Messages :
           MessageDesc[m].file = f /\ MessageFullName(m) \in requiredMessages
    \/ \E e \in Enums :
           EnumDesc[e].file = f /\ EnumFullName(e) \in requiredEnums

FileRetention ==
    /\ pc = "done" =>
           /\ KeptFiles \subseteq allFds
           /\ \A f \in allFds :
                  f \in KeptFiles <=>
                      \/ \E m \in Resolved : MethodFile(m) = f
                      \/ OwnsRequired(f)
    /\ pc \in {"parse", "resolve", "collect"} => filesToTrim = {}

\* a file kept only for the types it owns, next to a reachable file dropped
FileRetentionWitness ==
    /\ pc = "done"
    /\ \E f \in KeptFiles : \A m \in Resolved : MethodFile(m) # f
    /\ \E f \in allFds : f \notin KeptFiles

\* C4: every import of every pruned file names a file of the output set.
ImportSoundness ==
    /\ \A P \in filteredFileProtos : Range(P.dependency) \subseteq filesToTrim
    /\ pc = "done" =>
           \A f \in KeptFiles : Range(result[f].dependency) \subseteq KeptFiles

\* project is in the output without its import of the dropped file extra
ImportSoundnessWitness ==
    /\ pc = "done"
    /\ "project" \in KeptFiles
    /\ "extra" \notin KeptFiles
    /\ result["project"].dependency = <<"common">>

\* the selector the last findMethods call was about, and how that call ended
LastFailed == pc = "failed" /\ err = "MethodNotFound"
LastSucceeded == sel > 1 /\ ~LastFailed
LastSelector == IF LastFailed THEN methodNames[sel] ELSE methodNames[sel - 1]

\* C5: a selector with two or more separators contributes exactly the method
\* of the reachable files whose full name equals it; the run fails with
\* method-not-found when there is none.
QualifiedResolution ==
    /\ (LastSucceeded /\ Count(LastSelector) >= 2) =>
           /\ Len(methods) = 1
           /\ MethodFullName(methods[1]) = LastSelector
           /\ MethodFile(methods[1]) \in allFds
    /\ (LastFailed /\ Count(LastSelector) >= 2) =>
           /\ ~ \E m \in MethodIds :
                    MethodFullName(m) = LastSelector /\ MethodFile(m) \in allFds
           /\ result = EmptyMap

\* a fully qualified selector resolved to a method of an imported file
QualifiedResolutionWitness ==
    /\ LastSucceeded
    /\ Count(LastSelector) >= 2
    /\ MethodFile(methods[1]) \notin Range(entryFds)

\* C6: a Service.Method selector is matched only against the services of the
\* entry files, by exact service and method name; without a match the run
\* fails with method-not-found and returns nothing.
ScopedMatch(m, selector) ==
    /\ Count(selector) = 1
    /\ selector = ServiceDesc[MethodDesc[m].service].name \o <<Dot>>
                      \o MethodDesc[m].name

ScopedResolution ==
    /\ (LastSucceeded /\ Count(LastSelector) = 1) =>
           /\ Len(methods) = 1
           /\ ScopedMatch(methods[1], LastSelector)
           /\ MethodFile(methods[1]) \in Range(entryFds)
    /\ (LastFailed /\ Count(LastSelector) = 1) =>
           /\ ~ \E m \in MethodIds :
                    ScopedMatch(m, LastSelector) /\ MethodFile(m) \in Range(entryFds)
           /\ result = EmptyMap
           /\ filteredFileProtos = {}

\* the run failed on Service.Method although an imported file has that method
ScopedResolutionWitness ==
    /\ LastFailed
    /\ Count(LastSelector) = 1
    /\ \E m \in MethodIds : ScopedMatch(m, LastSelector) /\ MethodFile(m) \in allFds

\* C7: a selector without separator resolves to every method of every
\* service of every entry file whose simple name has the selector as a
\* substring, all of them, and to no method of another file.
IsSubstring(sub, s) ==
    \E pre, post \in 0..Len(s) :
        /\ pre + Len(sub) + post = Len(s)
        /\ \A k \in 1..Len(sub) : s[pre + k] = sub[k]

PartialResolution ==
    (LastSucceeded /\ Count(LastSelector) = 0) =>
        /\ Range(methods) =
               {m \in MethodIds : /\ MethodFile(m) \in Range(entryFds)
                                  /\ IsSubstring(LastSelector, MethodDesc[m].name)}
        /\ NoDuplicates(methods)

\* a non-empty substring matched methods of two entry files, while a
\* reachable file that is no entry file has a matching method too
PartialResolutionWitness ==
    /\ LastSucceeded
    /\ Count(LastSelector) = 0
    /\ LastSelector # <<>>
    /\ \E a, b \in Range(methods) : MethodFile(a) # MethodFile(b)
    /\ \E m \in MethodIds :
           /\ MethodFile(m) \in allFds \ Range(entryFds)
           /\ IsSubstring(LastSelector, MethodDesc[m].name)

\* C8: with an empty selector list the resolved methods are exactly the
\* methods of the services declared in the entry files, and the output keeps
\* of each file exactly the top-level types reachable from them.
CleanupMode ==
    (Len(methodNames) = 0 /\ pc \in {"collect", "prune", "rebuild", "done"}) =>
        /\ Resolved = {m \in MethodIds : MethodFile(m) \in Range(entryFds)}
        /\ NoDuplicates(entryPointMethods)
        /\ pc = "done" =>
               \A f \in KeptFiles :
                   /\ KeptTopMessages(f) =
                          Range(FileDesc[f].messageTypes)
                              \cap ReachableMessages(Resolved)
                   /\ KeptEnums(f) =
                          Range(FileDesc[f].enumTypes) \cap ReachableEnums(Resolved)

\* a cleanup run that left out a method of an imported file and removed types
CleanupModeWitness ==
    /\ Len(methodNames) = 0
    /\ pc = "done"
    /\ \E m \in MethodIds : MethodFile(m) \in allFds /\ m \notin Resolved
    /\ \E f \in KeptFiles :
           Range(FileDesc[f].messageTypes) \ KeptTopMessages(f) # {}

\* C9: a cleanup run keeps, for every entry file, every service the file
\* declares, with all of its methods.
CleanupKeepsSurface ==
    (Len(methodNames) = 0 /\ pc = "done") =>
        \A f \in Range(entryFds) :
            /\ f \in KeptFiles
            /\ [i \in 1..Len(result[f].service) |-> result[f].service[i].id]
                   = FileDesc[f].services
            /\ \A i \in 1..Len(result[f].service) :
                   MethodIdsOf(result[f].service[i])
                       = ServiceDesc[result[f].service[i].id].methods

\* C10: a pruned file has a service iff a resolved entry method of that file
\* belongs to it; the service keeps name and options, kept services keep
\* their declaration order, and each lists its resolved methods in the order
\* in which they were resolved.
PositionsOf(svc) ==
    {i \in 1..Len(entryPointMethods) : MethodDesc[entryPointMethods[i]].service = svc}

\* ms lists entryPointMethods at the positions of svc, in increasing position
InResolvedOrder(ms, svc) ==
    /\ Len(ms) = Cardinality(PositionsOf(svc))
    /\ \A k \in 1..Len(ms) :
           \E i \in PositionsOf(svc) :
               /\ Cardinality({j \in PositionsOf(svc) : j < i}) = k - 1
               /\ ms[k] = entryPointMethods[i]

DeclIndex(f, svc) ==
    CHOOSE i \in 1..Len(FileDesc[f].services) : FileDesc[f].services[i] = svc

PrunedServices ==
    \A P \in filteredFileProtos :
        /\ \A svc \in Range(FileDesc[P.name].services) :
               (\E i \in 1..Len(P.service) : P.service[i].id = svc)
                   <=> PositionsOf(svc) # {}
        /\ \A i \in 1..Len(P.service) :
               /\ P.service[i].id \in Range(FileDesc[P.name].services)
               /\ P.service[i].name = ServiceDesc[P.service[i].id].name
               /\ P.service[i].options = ServiceDesc[P.service[i].id].options
               /\ InResolvedOrder(MethodIdsOf(P.service[i]), P.service[i].id)
        /\ \A i, j \in 1..Len(P.service) :
               i < j => DeclIndex(P.name, P.service[i].id)
                            < DeclIndex(P.name, P.service[j].id)

\* a service of the output lists two methods against their declaration order
PrunedServicesWitness ==
    /\ pc = "done"
    /\ "project" \in KeptFiles
    /\ \E i \in 1..Len(result["project"].service) :
           /\ MethodIdsOf(result["project"].service[i]) = <<"Del", "Get">>
           /\ result["project"].service[i].options = "deprecated"

\* ---------------------------------------------------------------------
\* ids is a selection of the declared list decl that keeps decl's order
InDeclarationOrder(ids, decl) ==
    LET pos(x) == CHOOSE k \in 1..Len(decl) : decl[k] = x
    IN  /\ Range(ids) \subseteq Range(decl)
        /\ \A i, j \in 1..Len(ids) : i < j => pos(ids[i]) < pos(ids[j])

\* a message of the output against the record type it was copied from
RECURSIVE WholeMessage(_)
WholeMessage(mp) ==
    LET orig == MessageDesc[mp.id]
    IN  /\ mp.name = orig.name
        /\ Len(mp.field) = Len(orig.fields)
        /\ \A j \in 1..Len(mp.field) :
               /\ mp.field[j].kind = orig.fields[j].kind
               /\ mp.field[j].kind = "message" =>
                      mp.field[j].typeName = MessageFullName(orig.fields[j].ref)
               /\ mp.field[j].kind = "enum" =>
                      mp.field[j].typeName = EnumFullName(orig.fields[j].ref)
        /\ Len(mp.nestedType) = Len(orig.nested)
        /\ \A j \in 1..Len(mp.nestedType) :
               /\ mp.nestedType[j].id = orig.nested[j]
               /\ WholeMessage(mp.nestedType[j])

WholeMethod(mp) ==
    /\ mp.name = MethodDesc[mp.id].name
    /\ mp.inputType = MessageFullName(MethodDesc[mp.id].input)
    /\ mp.outputType = MessageFullName(MethodDesc[mp.id].output)
    /\ mp.attrs = MethodDesc[mp.id].attrs

\* C11: in a successful run every record type of the output has the name,
\* the fields (kind and referenced type, in order) and the nested types of
\* the original, every enum its original values, every method its original
\* input type, output type and attributes; the record types and the enums
\* of an output file are exactly the top-level ones of the original whose
\* full name is in the required sets, in declaration order.
CopiedWhole ==
    pc = "done" =>
        \A f \in KeptFiles :
            LET P == result[f]
                msgIds == [i \in 1..Len(P.messageType) |-> P.messageType[i].id]
                enumIds == [i \in 1..Len(P.enumType) |-> P.enumType[i].id]
            IN  /\ \A i \in 1..Len(P.messageType) : WholeMessage(P.messageType[i])
                /\ Range(msgIds) = {m \in Range(FileDesc[f].messageTypes) :
                                       MessageFullName(m) \in requiredMessages}
                /\ InDeclarationOrder(msgIds, FileDesc[f].messageTypes)
                /\ \A i \in 1..Len(P.enumType) :
                       /\ P.enumType[i].name = EnumDesc[enumIds[i]].name
                       /\ P.enumType[i].value = EnumDesc[enumIds[i]].values
                /\ Range(enumIds) = {e \in Range(FileDesc[f].enumTypes) :
                                        EnumFullName(e) \in requiredEnums}
                /\ InDeclarationOrder(enumIds, FileDesc[f].enumTypes)
                /\ \A i \in 1..Len(P.service) :
                       \A k \in 1..Len(P.service[i].method) :
                           WholeMethod(P.service[i].method[k])

\* a successful run whose output has a record type with a nested type
\* ("B"), a file that lost some of its record types, and a kept enum
CopiedWholeWitness ==
    /\ pc = "done"
    /\ "billing" \in KeptFiles /\ "B" \in KeptTopMessages("billing")
    /\ "project" \in KeptFiles
    /\ KeptTopMessages("project") = {"Pr", "CQ", "DQ"}
    /\ KeptEnums("project") = {"Pk"}
    /\ KeptMethods("project") = {"Get", "GetA"}

ParseFailed == pc = "failed" /\ err = "ParseFailure"
EntryAbsent ==
    ParseFailed /\ \E i \in 1..Len(entryProtoFiles) :
                      entryProtoFiles[i] \notin protoContents
ImportAbsent ==
    ParseFailed /\ Range(entryProtoFiles) \subseteq protoContents
SelectorFailed(n) ==
    /\ pc = "failed" /\ err = "MethodNotFound"
    /\ Count(methodNames[sel]) = n
    /\ sel > 1
RebuildFailed ==
    pc = "failed" /\ err = "DescriptorRebuildFailure" /\ Cardinality(filesToTrim) > 1

ResolvedBy(i) == findMethods(methodNames[i], entryFds, allFds)
Resolves(i) == ResolvedBy(i).err = NoErr

\* C14: a run never ends in the error of a zero-separator selector that
\* matched no method while another selector of the list resolves.
SubstringMissTolerated ==
    ~ /\ pc = "failed" /\ err = "MethodNotFound"
      /\ Count(methodNames[sel]) = 0
      /\ \E j \in 1..Len(methodNames) : j # sel /\ Resolves(j)

\* C15: a run whose selectors are all zero-separator selectors that match
\* no method ends without an error and with an empty mapping.
EmptyResolutionTolerated ==
    /\ pc \in {"done", "failed"}
    /\ Parseable(entryProtoFiles) /\ Len(entryProtoFiles) > 0
    /\ Len(methodNames) > 0
    /\ \A i \in 1..Len(methodNames) :
           Count(methodNames[i]) = 0 /\ ~Resolves(i)
    => pc = "done" /\ result = EmptyMap /\ err = NoErr

\* ---------------------------------------------------------------------
\* a collectDependencies call got past its look-up and starts on the fields
Entered == Len(stack') > Len(stack)
EnteredName == MessageFullName(stack'[Len(stack')].md)

\* the record type appears once among the messages of its output file
KeptOnce(m) ==
    LET P == result[MessageDesc[m].file]
    IN  Cardinality({i \in 1..Len(P.messageType) : P.messageType[i].id = m}) = 1

\* C16: the collection of the closure always comes to an end, also on the
\* graphs with a record type that refers to itself ("Pr") or to itself
\* through another ("A", "B"); a call works on the fields of a type only
\* when its full name was not yet in the required set and puts it there,
\* names never leave the set, so each is added at most once; and every
\* record type of the output is there exactly once.
ClosureTerminates ==
    /\ [][/\ requiredMessages \subseteq requiredMessages'
          /\ Entered => /\ EnteredName \notin requiredMessages
                         /\ EnteredName \in requiredMessages']_vars
    /\ [](pc = "done" =>
             \A f \in KeptFiles : \A m \in KeptTopMessages(f) : KeptOnce(m))
    /\ ((pc = "collect") ~> (pc # "collect"))

\* a finished run that kept the self-referencing type, once, and went
\* through the two-type cycle as well
ClosureTerminatesWitness ==
    /\ pc = "done"
    /\ "project" \in KeptFiles /\ "Pr" \in KeptTopMessages("project")
    /\ KeptOnce("Pr")
    /\ "billing" \in KeptFiles /\ {"A", "B"} \subseteq KeptTopMessages("billing")

\* ---------------------------------------------------------------------
\* the resolved-method list names some method more than once
ResolvedTwice ==
    \E i, j \in 1..Len(entryPointMethods) :
        i # j /\ entryPointMethods[i] = entryPointMethods[j]

\* C20: when the resolved-method list names a method more than once, no
\* pruned service lists a method twice and the run does not fail.
DuplicatesHarmless ==
    ResolvedTwice =>
        /\ pc # "failed"
        /\ \A P \in filteredFileProtos : \A i \in 1..Len(P.service) :
               NoDuplicates(MethodIdsOf(P.service[i]))

\* ---------------------------------------------------------------------
Returns == pc \in {"done", "failed"}

InFile(ms, f) == {m \in Range(ms) : MethodFile(m) = f}

\* C18: once a call without selectors has resolved its methods, those it
\* resolved in an entry file include every method that the call with
\* selectors, on the same entry files and corpus, resolved in that file.
CleanupSuperset ==
    run = 2 /\ pc \notin {"parse", "resolve"} =>
        \A f \in Range(entryProtoFiles) :
            InFile(prev.resolved, f) \subseteq InFile(entryPointMethods, f)

\* the call with selectors resolved a method of the entry file and one of
\* an imported file; the call without resolved more in the entry file
CleanupSupersetWitness ==
    /\ run = 2 /\ pc = "done"
    /\ entryProtoFiles = <<"project">>
    /\ Range(prev.resolved) = {"Get", "Pi"}
    /\ Resolved = {"Get", "GetA", "Del"}

\* ---------------------------------------------------------------------
\* the record types and enums in the closure of some resolved method alone
NeededMessages == UNION {ReachableMessages({k}) : k \in Resolved}
NeededEnums == UNION {ReachableEnums({k}) : k \in Resolved}

Collected ==
    \/ pc \in {"prune", "rebuild", "done"}
    \/ pc = "failed" /\ err = "DescriptorRebuildFailure"

TypeIds(protos) == {protos[i].id : i \in 1..Len(protos)}

\* C19: once the methods are collected the required sets are the union of
\* the closures of each resolved method taken alone; every file of the
\* output keeps exactly those of its top-level types that some method
\* needs, and a file that is not kept has none; and a call with the
\* selectors in the opposite order ends the same way with the same required
\* sets, the same files and the same types in each file.
MergedDependencies ==
    /\ Collected =>
           /\ requiredMessages = {MessageFullName(m) : m \in NeededMessages}
           /\ requiredEnums = {EnumFullName(e) : e \in NeededEnums}
    /\ pc = "done" =>
           /\ \A f \in KeptFiles :
                  /\ KeptTopMessages(f) =
                         Range(FileDesc[f].messageTypes) \cap NeededMessages
                  /\ KeptEnums(f) = Range(FileDesc[f].enumTypes) \cap NeededEnums
           /\ \A f \in allFds \ KeptFiles :
                  /\ Range(FileDesc[f].messageTypes) \cap NeededMessages = {}
                  /\ Range(FileDesc[f].enumTypes) \cap NeededEnums = {}
    /\ run = 2 /\ Returns =>
           /\ pc = prev.pc
           /\ Collected =>
                  /\ requiredMessages = prev.messages
                  /\ requiredEnums = prev.enums
                  /\ filesToTrim = prev.files
           /\ pc = "done" =>
                  /\ DOMAIN result = DOMAIN prev.result
                  /\ \A f \in DOMAIN result :
                         /\ TypeIds(result[f].messageType)
                                = TypeIds(prev.result[f].messageType)
                         /\ TypeIds(result[f].enumType)
                                = TypeIds(prev.result[f].enumType)

\* methods of two entry files that share the imported file "common": it
\* keeps "U" and "St" and loses the rest, whichever selector comes first
MergedDependenciesWitness ==
    /\ run = 2 /\ pc = "done"
    /\ methodNames[1] # methodNames[2]
    /\ Resolved = {"Get", "bGet"}
    /\ KeptFiles = {"common", "project", "billing"}
    /\ KeptTopMessages("common") = {"U"}
    /\ KeptEnums("common") = {"St"}
    /\ result = prev.result

\* ---------------------------------------------------------------------
\* C12: with the caller's entry files among the keys of the contents
\* mapping, and the files they import there too, the older TrimMulti does
\* not fail over the files (only a selector or the rebuild can fail it),
\* and the keys of the mapping it returns are the caller's keys of the
\* retained files, with a common root and without.
OriginalKeys ==
    /\ pc = "failed" /\ Parseable(entryProtoFiles) /\ Len(entryProtoFiles) > 0
           => err \in {"MethodNotFound", "DescriptorRebuildFailure"}
    /\ pc = "returned" =>
           DOMAIN finalResults = {KeyOf(f) : f \in DOMAIN result}

\* ---------------------------------------------------------------------
\* C23: a trimmer starts with empty required sets, and in every step of a
\* run the set of required record types and the set of required enum types
\* after the step include those before it: no name is ever removed.
RequiredSetsGrow ==
    /\ [](pc \in {"parse", "resolve"} =>
             requiredMessages = {} /\ requiredEnums = {})
    /\ [][/\ requiredMessages \subseteq requiredMessages'
          /\ requiredEnums \subseteq requiredEnums']_vars

\* a collection under way, inside a nested call, with several record types
\* and two enums recorded by earlier steps
RequiredSetsGrowWitness ==
    /\ pc = "collect"
    /\ Len(stack) >= 2
    /\ Cardinality(requiredMessages) >= 3
    /\ Cardinality(requiredEnums) >= 2

\* ---------------------------------------------------------------------
\* a required record type has a field whose type is declared inside another
\* top-level record type
RefersToNested(m, r) ==
    /\ MessageFullName(m) \in requiredMessages
    /\ r \in MessageRefs(m)
    /\ MessageDesc[r].parent # NoId
    /\ TopOf(r) # TopOf(m)

\* C27: a run that collected such a reference ends with the enclosing
\* top-level type in its output; and in every output the types that the
\* fields of the nested types of a kept record type refer to are present.
NestedClosureComplete ==
    /\ (Collected /\ Returns) =>
           \A m, r \in Messages :
               RefersToNested(m, r) => pc = "done" /\ MessageInOutput(r)
    /\ pc = "done" =>
           \A f \in KeptFiles : \A top \in KeptTopMessages(f) :
               \A n \in Subtree(top) \ {top} :
                   /\ \A r \in MessageRefs(n) : MessageInOutput(r)
                   /\ \A e \in EnumRefs(n) : EnumInOutput(e)

\* ---------------------------------------------------------------------
\* the original location that a location of a pruned file is the clone of
OriginalOf(P, loc) == FileDesc[P.name].sourceCodeInfo[loc.span]

\* What a path addresses in a list of top-level elements, and in the list
\* of methods of a service: NoId when the index is out of range
ElementAt(ids, index) == IF index + 1 \in 1..Len(ids) THEN ids[index + 1] ELSE NoId

AddressesMessage(path) == Len(path) >= 2 /\ path[1] = 4
AddressesEnum(path) == Len(path) >= 2 /\ path[1] = 5
AddressesService(path) == Len(path) >= 2 /\ path[1] = 6
AddressesMethod(path) == Len(path) >= 4 /\ path[1] = 6 /\ path[3] = 2

\* the ids of a list of protos of a pruned file
Ids(protos) == [i \in 1..Len(protos) |-> protos[i].id]

\* the element a location of the pruned file P points at is the one its
\* original pointed at in the original file
SameElement(P, loc) ==
    LET orig == OriginalOf(P, loc).path
        fd == FileDesc[P.name]
    IN  /\ Len(loc.path) = Len(orig)
        /\ \A k \in 1..Len(orig) : k \notin {2, 4} => loc.path[k] = orig[k]
        /\ AddressesMessage(orig) =>
               /\ ElementAt(Ids(P.messageType), loc.path[2]) # NoId
               /\ ElementAt(Ids(P.messageType), loc.path[2])
                      = ElementAt(fd.messageTypes, orig[2])
        /\ AddressesEnum(orig) =>
               /\ ElementAt(Ids(P.enumType), loc.path[2]) # NoId
               /\ ElementAt(Ids(P.enumType), loc.path[2])
                      = ElementAt(fd.enumTypes, orig[2])
        /\ AddressesService(orig) =>
               /\ ElementAt(Ids(P.service), loc.path[2]) # NoId
               /\ ElementAt(Ids(P.service), loc.path[2])
                      = ElementAt(fd.services, orig[2])
        /\ AddressesMethod(orig) =>
               LET svc == P.service[loc.path[2] + 1]
               IN  /\ ElementAt(Ids(svc.method), loc.path[4]) # NoId
                   /\ ElementAt(Ids(svc.method), loc.path[4])
                          = ElementAt(ServiceDesc[svc.id].methods, orig[4])
        /\ (Len(orig) >= 4 /\ ~AddressesMethod(orig)) => loc.path[4] = orig[4]

\* the original location addresses something the pruned file P has not
Unretained(P, orig) ==
    LET fd == FileDesc[P.name]
    IN  \/ AddressesMessage(orig) /\
               ElementAt(fd.messageTypes, orig[2]) \notin Range(Ids(P.messageType))
        \/ AddressesEnum(orig) /\
               ElementAt(fd.enumTypes, orig[2]) \notin Range(Ids(P.enumType))
        \/ AddressesService(orig) /\
               ElementAt(fd.services, orig[2]) \notin Range(Ids(P.service))
        \/ /\ AddressesMethod(orig)
           /\ ElementAt(fd.services, orig[2]) # NoId
           /\ \A i \in 1..Len(P.service) :
                  P.service[i].id = ElementAt(fd.services, orig[2]) =>
                      ElementAt(ServiceDesc[P.service[i].id].methods, orig[4])
                          \notin Range(Ids(P.service[i].method))

\* C22: in every pruned file each location that addresses a top-level
\* message, enum or service, or a method of a service, points at the
\* element that its original pointed at in the original file, the rest of
\* its path unchanged; and no location of the pruned file comes from an
\* original that addresses an element the pruned file has not.
LocationsReindexed ==
    \A P \in filteredFileProtos :
        /\ \A k \in 1..Len(P.sourceCodeInfo) : SameElement(P, P.sourceCodeInfo[k])
        /\ \A orig \in Range(FileDesc[P.name].sourceCodeInfo) :
               Unretained(P, orig.path) =>
                   \A k \in 1..Len(P.sourceCodeInfo) :
                       P.sourceCodeInfo[k].span # orig.span

\* a successful run that dropped the first service of "project" and
\* listed Del before Get: the location of Get, once method 0 of service 1,
\* is now at method 1 of service 0, and that of the dropped "Un" is gone
LocationsReindexedWitness ==
    /\ pc = "done"
    /\ \E P \in filteredFileProtos :
           /\ P.name = "project"
           /\ \E k \in 1..Len(P.sourceCodeInfo) :
                  /\ P.sourceCodeInfo[k].path = <<6, 0, 2, 1>>
                  /\ OriginalOf(P, P.sourceCodeInfo[k]).path = <<6, 1, 2, 0>>
           /\ "Un" \notin Range(Ids(P.messageType))
           /\ \A k \in 1..Len(P.sourceCodeInfo) :
                  AddressesMessage(P.sourceCodeInfo[k].path) =>
                      P.sourceCodeInfo[k].path[2] < 4

\* ---------------------------------------------------------------------
\* a path of the location table that addresses the file as a whole, and one
\* that addresses its package statement (field 2 of the file descriptor)
FileLevel(path) == Len(path) = 0
AddressesPackage(path) == Len(path) >= 1 /\ path[1] = 2

\* the location of the pruned file P that is the clone of orig, if any
ClonesOf(P, orig) ==
    {k \in 1..Len(P.sourceCodeInfo) : P.sourceCodeInfo[k].span = orig.span}

\* C30: every pruned file has the file-level locations and the locations
\* of the package statement of its original, with their paths unchanged,
\* and has no location of another top-level kind than package, message,
\* enum and service.
FileAndPackageLocationsKept ==
    \A P \in filteredFileProtos :
        \A orig \in Range(FileDesc[P.name].sourceCodeInfo) :
            /\ (FileLevel(orig.path) \/ AddressesPackage(orig.path)) =>
                   \E k \in ClonesOf(P, orig) :
                       P.sourceCodeInfo[k].path = orig.path
            /\ (~FileLevel(orig.path) /\ orig.path[1] \notin {2, 4, 5, 6}) =>
                   ClonesOf(P, orig) = {}

\* ---------------------------------------------------------------------
\* C25: no step of a run, of one that succeeds or of one that fails,
\* changes the descriptors the parser handed over (files with their imports
\* and location tables, record types with their fields, enums, services,
\* methods) or the caller's contents mapping, entry files and selectors.
InputUnchanged ==
    [][/\ corpus' = corpus
       /\ protoContents' = protoContents
       /\ entryProtoFiles' = entryProtoFiles
       /\ methodNames' = methodNames]_vars

\* a finished run that pruned a file down, with a location whose path in
\* the pruned file differs from the path of its original, which is as it was
InputUnchangedWitness ==
    /\ pc = "done"
    /\ corpus = Fixture
    /\ \E P \in filteredFileProtos :
           /\ Len(P.messageType) < Len(FileDesc[P.name].messageTypes)
           /\ \E k \in 1..Len(P.sourceCodeInfo) :
                  P.sourceCodeInfo[k].path # OriginalOf(P, P.sourceCodeInfo[k]).path

\* ---------------------------------------------------------------------
\* the file that declares the record type or the enum of a full name
OwnerOf(typeName) ==
    IF \E m \in Messages : MessageFullName(m) = typeName
    THEN MessageDesc[CHOOSE m \in Messages : MessageFullName(m) = typeName].file
    ELSE EnumDesc[CHOOSE e \in Enums : EnumFullName(e) = typeName].file

\* the type names a pruned file refers to: in the fields of its record
\* types, nested ones included, and in the signatures of its methods
ReferencesOf(P) ==
    {f.typeName : f \in {g \in UNION {FieldsOf(P.messageType[i]) :
                                         i \in 1..Len(P.messageType)} :
                             g.kind # "scalar"}}
    \cup UNION {UNION {{P.service[i].method[k].inputType,
                        P.service[i].method[k].outputType} :
                       k \in 1..Len(P.service[i].method)} :
                i \in 1..Len(P.service)}

\* C21: every type that a pruned file refers to and that another file
\* declares is declared by a retained file that the pruned file still
\* lists among its imports.
DroppedImportsSafe ==
    \A P \in filteredFileProtos :
        \A typeName \in ReferencesOf(P) :
            OwnerOf(typeName) # P.name =>
                /\ OwnerOf(typeName) \in filesToTrim
                /\ OwnerOf(typeName) \in Range(P.dependency)

\* ---------------------------------------------------------------------
\* no entry file declares a method
NoEntryMethods ==
    \A f \in Range(entryProtoFiles) :
        \A i \in 1..Len(FileDesc[f].services) :
            ServiceDesc[FileDesc[f].services[i]].methods = <<>>

\* C29: a run without selectors whose entry files parse and declare no
\* method returns an empty mapping and no error, and retains no file.
CleanupWithoutMethods ==
    /\ Returns
    /\ Len(methodNames) = 0
    /\ Len(entryProtoFiles) > 0 /\ Parseable(entryProtoFiles)
    /\ NoEntryMethods
    => pc = "done" /\ err = NoErr /\ result = EmptyMap /\ filesToTrim = {}

\* ---------------------------------------------------------------------
\* the sequences of whole segments that every path of a list starts with
Segments(path) == SplitPath(path)
SegmentPrefixes(path) ==
    {SubSeq(Segments(path), 1, k) : k \in 0..Len(Segments(path))}
CommonSegments(ps) ==
    {q \in SegmentPrefixes(ps[1]) :
        \A i \in 1..Len(ps) : q \in SegmentPrefixes(ps[i])}
LongestCommonSegments(ps) ==
    CHOOSE q \in CommonSegments(ps) : \A r \in CommonSegments(ps) : Len(r) <= Len(q)

\* the directory a clean relative path is in
ContainingDirectory(path) ==
    IF Len(Segments(path)) = 1 THEN <<".">>
    ELSE JoinPath(SubSeq(Segments(path), 1, Len(Segments(path)) - 1))

\* C24: the common root of several paths is the longest sequence of whole
\* segments that every one of them starts with, joined by the separator
\* (so paths whose first segments only share leading characters have the
\* empty root); that of one path is its containing directory; that of no
\* path is empty.
CommonRootBySegments ==
    pc = "rooted" =>
        IF Len(pathArgs) = 0 THEN commonRoot = <<>>
        ELSE IF Len(pathArgs) = 1 THEN commonRoot = ContainingDirectory(pathArgs[1])
        ELSE /\ commonRoot = JoinPath(LongestCommonSegments(pathArgs))
             /\ (\E i, j \in 1..Len(pathArgs) :
                     Segments(pathArgs[i])[1] # Segments(pathArgs[j])[1])
                    => commonRoot = <<>>

\* "ab/x" and "abc/y" were given together, and the root found is empty
CommonRootBySegmentsWitness ==
    /\ pc = "rooted"
    /\ <<"a", "b", Separator, "x">> \in Range(pathArgs)
    /\ <<"a", "b", "c", Separator, "y">> \in Range(pathArgs)
    /\ commonRoot = <<>>

\* ---------------------------------------------------------------------
\* every selector of the call names a method by Service.Method or in full
NamedSelectors ==
    Len(methodNames) > 0 /\ \A i \in 1..Len(methodNames) : Count(methodNames[i]) >= 1

Ended == pc \in {"done", "returned", "failed"}

\* C26: a call repeated with the same entry files and selectors on the same
\* files ends as the first call did, with the same list of resolved
\* methods and the same output, whatever order the entry files come out of
\* the entry-file map in.
ResolutionDeterministic ==
    (run = 2 /\ Ended /\ NamedSelectors) =>
        /\ (pc = "failed") = (prev.pc = "failed")
        /\ entryPointMethods = prev.resolved
        /\ result = prev.result

\* ---------------------------------------------------------------------
\* the import paths under which the caller's mapping has the file name
UnderImportPath(name) ==
    {i \in 1..Len(importPaths) :
        importPaths[i] \o <<Separator>> \o name \in Keys}

\* the key the claim gives to a retained file
OutputKey(f) ==
    LET name == ImportName(f)
        first == CHOOSE i \in UnderImportPath(name) :
                     \A j \in UnderImportPath(name) : i <= j
    IN  IF UnderImportPath(name) = {} THEN name
        ELSE importPaths[first] \o <<Separator>> \o name

\* C28: the mapping TrimMulti returns has one entry for each retained
\* file and no two retained files share a key; the key of a file is its
\* name joined to the first import path under which the caller's mapping
\* has it, or the name itself when there is none; and the entry holds what
\* was printed for that file.
OutputKeysInjective ==
    pc = "returned" =>
        /\ \A f, g \in DOMAIN result : f # g => OutputKey(f) # OutputKey(g)
        /\ DOMAIN finalResults = {OutputKey(f) : f \in DOMAIN result}
        /\ Cardinality(DOMAIN finalResults) = Cardinality(DOMAIN result)
        /\ \A f \in DOMAIN result : finalResults[OutputKey(f)] = result[f]
        /\ importPaths # <<>> => DOMAIN finalResults \subseteq Keys

\* files returned under two import paths, "common" under the first of the
\* two directories that have it and another file under the second
OutputKeysInjectiveWitness ==
    /\ pc = "returned"
    /\ layout = "mirrored"
    /\ importPaths = <<<<"l", "i", "b">>, <<"a", "p", "i">>>>
    /\ <<"l", "i", "b", Separator>> \o ShortName["common"] \in DOMAIN finalResults
    /\ <<"a", "p", "i", Separator>> \o ShortName["project"] \in DOMAIN finalResults
    /\ Cardinality(DOMAIN result) >= 2

====
